---- MODULE Spec2Model ----
(***************************************************************************)
(* A model of the PDF ingestion service: the chunkers of pdf_utils.py, the *)
(* storage transaction of db.py and the /ingest handler of main.py.        *)
(*                                                                         *)
(* A Python str is a sequence of one-character strings.  The alphabet has  *)
(* one letter, the full stop, and the two whitespace characters the code   *)
(* treats differently (the blank and the newline).                         *)
(***************************************************************************)
EXTENDS Integers, Sequences, FiniteSets, TLC

VARIABLES
    pages,               \* chunker: the page texts the extractor returned
    max_chars,           \* chunker: argument max_chars
    overlap,             \* chunker: argument overlap
    use_smart_chunking,  \* chunker: argument use_smart_chunking
    chunks,              \* chunker: the returned list of chunk dicts
    cpc,                 \* chunker: "input" before the call, "done" after
    run,                 \* chunker, statement by statement: the locals of the
                         \* running chunk_text / chunk_text_smart call
    store,               \* database: committed rows and the id sequences
    session,             \* database: each caller's SQLAlchemy session
    call,                \* each caller's ingest_document_with_chunks frame
    ncalls,              \* number of ingest_document_with_chunks calls made
    req,                 \* the /ingest request being handled
    qry,                 \* the /query request being handled
    emb                  \* embeddings.py: _embedding_model and its callers

chunkVars == <<pages, max_chars, overlap, use_smart_chunking, chunks, cpc>>

storeVars == <<store, session, call, ncalls>>

vars == <<chunkVars, run, storeVars, req, qry, emb>>

(***************************************************************************)
(* Bounds of the model.                                                    *)
(***************************************************************************)
\* A document's size is its characters plus its number of pages.
MaxDocSize == 5
\* max_chars ranges over 1..MaxCharsBound and overlap over 0..MaxCharsBound,
\* so overlap < max_chars, overlap = max_chars and overlap > max_chars occur.
MaxCharsBound == 3
\* The longest single page of the long-page specification.
MaxLongPage == 7
\* The document size of the statement-by-statement specification.
MaxLoopDocSize == 4

\* The longest chunk list and embedding array handed to the store.
MaxChunks == 2
\* The number of ingest_document_with_chunks calls over all callers.
MaxCalls == 2

\* The document size of an upload to /ingest.
MaxUploadSize == 3

\* The chunks in the store a /query searches, the largest top_k asked for,
\* and the largest distance the search reports.
MaxQueryChunks == 3
MaxTopK == 2
MaxDistance == 1

\* The two-page scenario: the lengths of page 1 and of page 2.
ScenarioPageOneChars == 3000
ScenarioPageTwoChars == 300

\* The calls of the embedding functions each thread makes.
MaxEmbedCalls == 2

EMBEDDING_DIMENSION == 384
\* The chunking parameters /ingest passes.
IngestMaxChars == 1500
IngestOverlap == 200

NL == "\n"
Alphabet == {"a", ".", " ", NL}

SetMin(S) == CHOOSE x \in S : \A y \in S : x <= y
SetMax(S) == CHOOSE x \in S : \A y \in S : x >= y

TextsUpTo(n) == UNION {[1..k -> Alphabet] : k \in 0..n}

RECURSIVE DocsWithin(_)
DocsWithin(s) ==
    {<<>>} \cup
    (IF s <= 0 THEN {}
     ELSE UNION {{<<t>> \o d : d \in DocsWithin(s - Len(t) - 1)} : t \in TextsUpTo(s - 1)})

(***************************************************************************)
(* Python str operations.                                                  *)
(***************************************************************************)
\* str.strip() removes leading and trailing whitespace.
IsSpace(c) == c \in {" ", NL}

Strip(s) ==
    LET ns == {i \in 1..Len(s) : ~IsSpace(s[i])}
    IN  IF ns = {} THEN <<>> ELSE SubSeq(s, SetMin(ns), SetMax(ns))

\* s[a:b], with Python's treatment of negative and out-of-range indices.
SliceIndex(s, i) ==
    IF i < 0 THEN (IF Len(s) + i < 0 THEN 0 ELSE Len(s) + i)
    ELSE (IF i > Len(s) THEN Len(s) ELSE i)

Slice(s, a, b) == SubSeq(s, SliceIndex(s, a) + 1, SliceIndex(s, b))

\* s.replace('\n', ' ')
ReplaceNewlines(s) == [i \in 1..Len(s) |-> IF s[i] = NL THEN " " ELSE s[i]]

\* s.split('. '): leftmost, non-overlapping occurrences of the separator.
RECURSIVE SplitDotSpace(_)
SplitDotSpace(s) ==
    LET hits == {i \in 1..(Len(s) - 1) : s[i] = "." /\ s[i + 1] = " "}
    IN  IF hits = {} THEN <<s>>
        ELSE LET i == SetMin(hits)
             IN  <<SubSeq(s, 1, i - 1)>> \o SplitDotSpace(SubSeq(s, i + 2, Len(s)))

\* s.endswith('.')
EndsWithDot(s) == Len(s) > 0 /\ s[Len(s)] = "."

(***************************************************************************)
(* pdf_utils.py: the chunk dict and the two chunkers.                      *)
(***************************************************************************)
\* Faulty variant: a chunk is labelled as running on into the next page.
ChunkDict_RunsOn(text, page_num, chunk_index) ==
    [text |-> text, page_start |-> page_num, page_end |-> page_num + 1,
     chunk_index |-> chunk_index]

ChunkDict(text, page_num, chunk_index) ==
    [text |-> text, page_start |-> page_num, page_end |-> page_num,
     chunk_index |-> chunk_index]

\* Faulty variant: the single-chunk branch forgets `chunk_index += 1`.
SinglePageChunk_NoIncrement(acc, page_text, page_num) ==
    [chunks |-> Append(acc.chunks, ChunkDict(Strip(page_text), page_num, acc.chunk_index)),
     chunk_index |-> acc.chunk_index]

\* A page that fits: one chunk of the stripped page text.
SinglePageChunk(acc, page_text, page_num) ==
    [chunks |-> Append(acc.chunks, ChunkDict(Strip(page_text), page_num, acc.chunk_index)),
     chunk_index |-> acc.chunk_index + 1]

\* Faulty variant: the guard against the endless loop reads
\* `overlap > max_chars`, so overlap = max_chars leaves start where it was.
WindowBody_StrictClamp(st, page_text, page_num, mc, ov) ==
    LET end == st.start + mc
        piece == Slice(page_text, st.start, end)
        emit == Strip(piece) # <<>>
    IN  [chunks |-> IF emit
                    THEN Append(st.chunks, ChunkDict(Strip(piece), page_num, st.chunk_index))
                    ELSE st.chunks,
         chunk_index |-> IF emit THEN st.chunk_index + 1 ELSE st.chunk_index,
         start |-> IF ov > mc THEN end ELSE end - ov]

\* Faulty variant: the next window starts at the end of this one whatever
\* the overlap.
WindowBody_NoBackStep(st, page_text, page_num, mc, ov) ==
    LET end == st.start + mc
        piece == Slice(page_text, st.start, end)
        emit == Strip(piece) # <<>>
    IN  [chunks |-> IF emit
                    THEN Append(st.chunks, ChunkDict(Strip(piece), page_num, st.chunk_index))
                    ELSE st.chunks,
         chunk_index |-> IF emit THEN st.chunk_index + 1 ELSE st.chunk_index,
         start |-> end]

\* chunk_text: one pass of the body of `while start < len(page_text)`.
WindowBody(st, page_text, page_num, mc, ov) ==
    LET end == st.start + mc
        piece == Slice(page_text, st.start, end)
        emit == Strip(piece) # <<>>
    IN  [chunks |-> IF emit
                    THEN Append(st.chunks, ChunkDict(Strip(piece), page_num, st.chunk_index))
                    ELSE st.chunks,
         chunk_index |-> IF emit THEN st.chunk_index + 1 ELSE st.chunk_index,
         start |-> IF ov >= mc THEN end ELSE end - ov]

RECURSIVE WindowLoop(_, _, _, _, _)
WindowLoop(st, page_text, page_num, mc, ov) ==
    IF st.start < Len(page_text)
    THEN WindowLoop(WindowBody(st, page_text, page_num, mc, ov), page_text, page_num, mc, ov)
    ELSE st

\* Faulty variant: `len(page_text) < max_chars` for `<=`, so a page of exactly
\* max_chars characters goes through the window loop.
ChunkTextPage_StrictFit(acc, page_text, page_num, mc, ov) ==
    IF Strip(page_text) = <<>> THEN acc
    ELSE IF Len(page_text) < mc THEN SinglePageChunk(acc, page_text, page_num)
    ELSE LET st == WindowLoop([chunks |-> acc.chunks, chunk_index |-> acc.chunk_index,
                               start |-> 0], page_text, page_num, mc, ov)
         IN  [chunks |-> st.chunks, chunk_index |-> st.chunk_index]

\* chunk_text: the body of `for page_num, page_text in enumerate(pages)`.
ChunkTextPage(acc, page_text, page_num, mc, ov) ==
    IF Strip(page_text) = <<>> THEN acc
    ELSE IF Len(page_text) <= mc THEN SinglePageChunk(acc, page_text, page_num)
    ELSE LET st == WindowLoop([chunks |-> acc.chunks, chunk_index |-> acc.chunk_index,
                               start |-> 0], page_text, page_num, mc, ov)
         IN  [chunks |-> st.chunks, chunk_index |-> st.chunk_index]

RECURSIVE ChunkTextPages(_, _, _, _, _)
ChunkTextPages(acc, ps, k, mc, ov) ==
    IF k > Len(ps) THEN acc
    ELSE ChunkTextPages(ChunkTextPage(acc, ps[k], k - 1, mc, ov), ps, k + 1, mc, ov)

chunk_text(ps, mc, ov) ==
    ChunkTextPages([chunks |-> <<>>, chunk_index |-> 0], ps, 1, mc, ov).chunks

\* chunk_text_smart: the sentence with its full stop added back.
Sentence(raw) ==
    LET s == Strip(raw)
    IN  IF s # <<>> /\ ~EndsWithDot(s) THEN Append(s, ".") ELSE s

\* chunk_text_smart: the segments of a page that does not fit.
Sentences(page_text) == SplitDotSpace(ReplaceNewlines(page_text))

\* chunk_text_smart: the overlap carried into the next chunk.
OverlapText(current_chunk, ov) ==
    IF Len(current_chunk) > ov
    THEN Slice(current_chunk, 0 - ov, Len(current_chunk))
    ELSE current_chunk

\* chunk_text_smart: one pass of the body of `for sentence in sentences`.
SentenceBody(st, raw, page_num, mc, ov) ==
    LET sentence == Sentence(raw)
        cur == st.current_chunk
    IN  IF Len(cur) + Len(sentence) + 1 > mc /\ cur # <<>>
        THEN [chunks |-> Append(st.chunks, ChunkDict(Strip(cur), page_num, st.chunk_index)),
              chunk_index |-> st.chunk_index + 1,
              current_chunk |-> OverlapText(cur, ov) \o <<" ">> \o sentence]
        ELSE [chunks |-> st.chunks,
              chunk_index |-> st.chunk_index,
              current_chunk |-> IF cur # <<>> THEN cur \o <<" ">> \o sentence ELSE sentence]

RECURSIVE SentenceLoop(_, _, _, _, _, _)
SentenceLoop(st, sentences, i, page_num, mc, ov) ==
    IF i > Len(sentences) THEN st
    ELSE SentenceLoop(SentenceBody(st, sentences[i], page_num, mc, ov),
                      sentences, i + 1, page_num, mc, ov)

\* chunk_text_smart: "Don't forget the last chunk".
LastChunk(st, page_num) ==
    IF Strip(st.current_chunk) # <<>>
    THEN [chunks |-> Append(st.chunks, ChunkDict(Strip(st.current_chunk), page_num, st.chunk_index)),
          chunk_index |-> st.chunk_index + 1]
    ELSE [chunks |-> st.chunks, chunk_index |-> st.chunk_index]

\* Faulty variant: a skipped page still uses up a chunk_index.
ChunkTextSmartPage_SkipTakesIndex(acc, page_text, page_num, mc, ov) ==
    IF Strip(page_text) = <<>> THEN [acc EXCEPT !.chunk_index = @ + 1]
    ELSE IF Len(page_text) <= mc THEN SinglePageChunk(acc, page_text, page_num)
    ELSE LastChunk(SentenceLoop([chunks |-> acc.chunks, chunk_index |-> acc.chunk_index,
                                 current_chunk |-> <<>>],
                                Sentences(page_text), 1, page_num, mc, ov), page_num)

\* chunk_text_smart: the body of `for page_num, page_text in enumerate(pages)`.
ChunkTextSmartPage(acc, page_text, page_num, mc, ov) ==
    IF Strip(page_text) = <<>> THEN acc
    ELSE IF Len(page_text) <= mc THEN SinglePageChunk(acc, page_text, page_num)
    ELSE LastChunk(SentenceLoop([chunks |-> acc.chunks, chunk_index |-> acc.chunk_index,
                                 current_chunk |-> <<>>],
                                Sentences(page_text), 1, page_num, mc, ov), page_num)

RECURSIVE ChunkTextSmartPages(_, _, _, _, _)
ChunkTextSmartPages(acc, ps, k, mc, ov) ==
    IF k > Len(ps) THEN acc
    ELSE ChunkTextSmartPages(ChunkTextSmartPage(acc, ps[k], k - 1, mc, ov), ps, k + 1, mc, ov)

chunk_text_smart(ps, mc, ov) ==
    ChunkTextSmartPages([chunks |-> <<>>, chunk_index |-> 0], ps, 1, mc, ov).chunks

\* extract_and_chunk_pdf, after the extractor has returned the pages.
extract_and_chunk_pdf(ps, mc, ov, smart) ==
    IF smart THEN chunk_text_smart(ps, mc, ov) ELSE chunk_text(ps, mc, ov)

(***************************************************************************)
(* db.py: the tables, the session, and ingest_document_with_chunks.        *)
(*                                                                         *)
(* store holds the committed rows and the two id sequences, which are not  *)
(* transactional.  A session holds the objects added and not yet flushed   *)
(* (new) and the rows its open transaction has inserted (documents,        *)
(* chunks); only commit moves those rows into store.                       *)
(***************************************************************************)
\* Each caller gets its own session from get_db(); two callers are what an
\* interleaving of transactions needs.
Callers == {"first", "second"}

None == "None"

EmptyStore == [documents |-> {}, chunks |-> {}, doc_seq |-> 1, chunk_seq |-> 1]

NoSession == [state |-> "none", new |-> <<>>, documents |-> {}, chunks |-> {}]

\* SessionLocal(): autocommit=False, autoflush=False.
SessionLocal == [state |-> "open", new |-> <<>>, documents |-> {}, chunks |-> {}]

\* Faulty variant: total_chunks is left at the column's default.
Document_DefaultTotal(title, file_path, total_chunks) ==
    [kind |-> "Document", title |-> title, file_path |-> file_path,
     total_chunks |-> 0]

Document(title, file_path, total_chunks) ==
    [kind |-> "Document", title |-> title, file_path |-> file_path,
     total_chunks |-> total_chunks]

Chunk(document_id, chunk_data, embedding) ==
    [kind |-> "Chunk", document_id |-> document_id,
     chunk_index |-> chunk_data.chunk_index,
     page_start |-> chunk_data.page_start, page_end |-> chunk_data.page_end,
     content |-> chunk_data.text, embedding |-> embedding]

\* The INSERT of one object: the row takes the next id of its sequence and
\* is visible inside the transaction only.  st is [store, session].
InsertRow(st, obj) ==
    IF obj.kind = "Document"
    THEN [store |-> [st.store EXCEPT !.doc_seq = @ + 1],
          session |-> [st.session EXCEPT !.documents =
              @ \cup {[id |-> st.store.doc_seq, title |-> obj.title,
                       file_path |-> obj.file_path,
                       total_chunks |-> obj.total_chunks]}]]
    ELSE [store |-> [st.store EXCEPT !.chunk_seq = @ + 1],
          session |-> [st.session EXCEPT !.chunks =
              @ \cup {[id |-> st.store.chunk_seq, document_id |-> obj.document_id,
                       chunk_index |-> obj.chunk_index,
                       page_start |-> obj.page_start, page_end |-> obj.page_end,
                       content |-> obj.content, embedding |-> obj.embedding]}]]

\* db.add(obj)
SessionAdd(st, obj) == [st EXCEPT !.session.new = Append(@, obj)]

\* The first k pending objects are inserted, in the order they were added.
RECURSIVE FlushFirst(_, _)
FlushFirst(st, k) ==
    IF k = 0 \/ st.session.new = <<>> THEN st
    ELSE FlushFirst(InsertRow([st EXCEPT !.session.new = Tail(@)], Head(st.session.new)),
                    k - 1)

\* db.flush()
SessionFlush(st) == FlushFirst(st, Len(st.session.new))

\* db.commit(): flush what is pending, then make the transaction's rows
\* durable.
SessionCommit(st) ==
    LET f == SessionFlush(st)
    IN  [store |-> [f.store EXCEPT !.documents = @ \cup f.session.documents,
                                   !.chunks = @ \cup f.session.chunks],
         session |-> [f.session EXCEPT !.documents = {}, !.chunks = {}]]

\* Faulty variant: the rollback takes the committed rows with it.
SessionRollback_WipesStore(st) ==
    [st EXCEPT !.session.new = <<>>, !.session.documents = {}, !.session.chunks = {},
               !.store.documents = {}, !.store.chunks = {}]

\* db.rollback(): the pending objects and the transaction's rows are gone.
SessionRollback(st) ==
    [st EXCEPT !.session.new = <<>>, !.session.documents = {}, !.session.chunks = {}]

\* db.close(): releases the session; a transaction still open is rolled back.
SessionClose(st) ==
    [SessionRollback(st) EXCEPT !.session.state = "closed"]

\* Faulty variant: create_document commits where it should flush.
create_document_Commits(st, title, file_path, total_chunks) ==
    LET doc_id == st.store.doc_seq
        f == SessionCommit(SessionAdd(st, Document(title, file_path, total_chunks)))
    IN  [store |-> f.store, session |-> f.session, id |-> doc_id]

\* create_document: db.add(doc); db.flush(); doc.id is populated.
create_document(st, title, file_path, total_chunks) ==
    LET doc_id == st.store.doc_seq
        f == SessionFlush(SessionAdd(st, Document(title, file_path, total_chunks)))
    IN  [store |-> f.store, session |-> f.session, id |-> doc_id]

\* Faulty variant: the length test never fails.
CountMismatch_Never(chunk_list, embeddings) == FALSE

\* create_chunks: the length test.
CountMismatch(chunk_list, embeddings) == Len(chunk_list) # Len(embeddings)

\* Faulty variant: the vectors are taken from the end of the array.
AddChunk_VectorsReversed(st, document_id, chunk_list, embeddings, i) ==
    SessionAdd(st, Chunk(document_id, chunk_list[i + 1],
                         embeddings[Len(embeddings) - i]))

\* create_chunks: one pass of `for i, chunk_data in enumerate(chunks)`.
AddChunk(st, document_id, chunk_list, embeddings, i) ==
    SessionAdd(st, Chunk(document_id, chunk_list[i + 1], embeddings[i + 1]))

RECURSIVE AddChunks(_, _, _, _, _)
AddChunks(st, document_id, chunk_list, embeddings, i) ==
    IF i >= Len(chunk_list) THEN st
    ELSE AddChunks(AddChunk(st, document_id, chunk_list, embeddings, i),
                   document_id, chunk_list, embeddings, i + 1)

\* ingest_document_with_chunks when no statement of it raises but the
\* length test: [store, status, document_id, num_chunks].
ingest_document_with_chunks(db, title, chunk_list, embeddings, file_path) ==
    LET opened == [store |-> db, session |-> SessionLocal]
        d == create_document(opened, title, file_path, Len(chunk_list))
        st == [store |-> d.store, session |-> d.session]
    IN  IF CountMismatch(chunk_list, embeddings)
        THEN [store |-> SessionClose(SessionRollback(st)).store,
              status |-> "raised", document_id |-> None, num_chunks |-> None]
        ELSE [store |-> SessionClose(SessionCommit(SessionFlush(
                            AddChunks(st, d.id, chunk_list, embeddings, 0)))).store,
              status |-> "success", document_id |-> d.id,
              num_chunks |-> Len(chunk_list)]

Idle == [pc |-> "idle"]

NoRequest == [pc |-> "none"]

NoQuery == [pc |-> "none"]

NoEmbedder == [pc |-> "none"]

\* No /query request and no embedding call in progress.
ServiceIdle == qry = NoQuery /\ emb = NoEmbedder

StoreIdle ==
    /\ store = EmptyStore
    /\ session = [c \in Callers |-> NoSession]
    /\ call = [c \in Callers |-> Idle]
    /\ ncalls = 0

(***************************************************************************)
(* The chunker specification: any document within the bounds, any          *)
(* parameters, either variant.                                             *)
(***************************************************************************)
NotRunning == [pc |-> "none"]

ChunkInit ==
    /\ pages \in DocsWithin(MaxDocSize)
    /\ max_chars \in 1..MaxCharsBound
    /\ overlap \in 0..MaxCharsBound
    /\ use_smart_chunking \in BOOLEAN
    /\ chunks = <<>>
    /\ cpc = "input"
    /\ run = NotRunning
    /\ StoreIdle
    /\ req = NoRequest
    /\ ServiceIdle

ExtractAndChunk ==
    /\ cpc = "input"
    /\ chunks' = extract_and_chunk_pdf(pages, max_chars, overlap, use_smart_chunking)
    /\ cpc' = "done"
    /\ UNCHANGED <<pages, max_chars, overlap, use_smart_chunking, run, storeVars, req, qry, emb>>

ChunkNext == ExtractAndChunk

Spec == ChunkInit /\ [][ChunkNext]_vars

(***************************************************************************)
(* The long-page specification: one page of up to MaxLongPage characters   *)
(* without newlines, for behaviour that needs many sentence segments.      *)
(***************************************************************************)
LongPageTexts == UNION {[1..k -> Alphabet \ {NL}] : k \in 0..MaxLongPage}

LongPageInit ==
    /\ pages \in {<<t>> : t \in LongPageTexts}
    /\ max_chars \in 1..MaxCharsBound
    /\ overlap \in 0..MaxCharsBound
    /\ use_smart_chunking \in BOOLEAN
    /\ chunks = <<>>
    /\ cpc = "input"
    /\ run = NotRunning
    /\ StoreIdle
    /\ req = NoRequest
    /\ ServiceIdle

LongPageSpec == LongPageInit /\ [][ChunkNext]_vars

(***************************************************************************)
(* The two-page scenario with the parameters /ingest passes: page 1 is     *)
(* made of sentences of one length (the letters, then '. '), cut at        *)
(* ScenarioPageOneChars characters; page 2 is one run of letters.          *)
(***************************************************************************)
SentenceLengths == {n \in 250..ScenarioPageOneChars : n % 50 = 0}

ScenarioPageOne(n) ==
    [i \in 1..ScenarioPageOneChars |->
        LET k == ((i - 1) % n) + 1
        IN  IF k = n - 1 THEN "." ELSE IF k = n THEN " " ELSE "a"]

ScenarioPageTwo == [i \in 1..ScenarioPageTwoChars |-> "a"]

ScenarioInit ==
    /\ pages \in {<<ScenarioPageOne(n), ScenarioPageTwo>> : n \in SentenceLengths}
    /\ max_chars = IngestMaxChars
    /\ overlap = IngestOverlap
    /\ use_smart_chunking \in BOOLEAN
    /\ chunks = <<>>
    /\ cpc = "input"
    /\ run = NotRunning
    /\ StoreIdle
    /\ req = NoRequest
    /\ ServiceIdle

ScenarioSpec == ScenarioInit /\ [][ChunkNext]_vars

(***************************************************************************)
(* The statement-by-statement specification: the same two functions, one   *)
(* action per loop pass, so that a loop that never ends is a behaviour     *)
(* that never reaches the return.                                          *)
(***************************************************************************)
LoopInit ==
    /\ pages \in DocsWithin(MaxLoopDocSize)
    /\ max_chars \in 1..MaxCharsBound
    /\ overlap \in 0..MaxCharsBound
    /\ use_smart_chunking \in BOOLEAN
    /\ chunks = <<>>
    /\ cpc = "input"
    /\ run = [pc |-> "for", page_num |-> 0, chunks |-> <<>>, chunk_index |-> 0]
    /\ StoreIdle
    /\ req = NoRequest
    /\ ServiceIdle

PageText == pages[run.page_num + 1]

Acc == [chunks |-> run.chunks, chunk_index |-> run.chunk_index]

\* `for page_num, page_text in enumerate(pages)`: the next page; the empty
\* page and the page that fits are done in this pass.
ForPage ==
    /\ run.pc = "for"
    /\ run.page_num < Len(pages)
    /\ run' =
          IF Strip(PageText) = <<>>
          THEN [run EXCEPT !.page_num = @ + 1]
          ELSE IF Len(PageText) <= max_chars
          THEN LET acc == SinglePageChunk(Acc, PageText, run.page_num)
               IN  [pc |-> "for", page_num |-> run.page_num + 1,
                    chunks |-> acc.chunks, chunk_index |-> acc.chunk_index]
          ELSE IF use_smart_chunking
          THEN [pc |-> "for_sentence", page_num |-> run.page_num,
                chunks |-> run.chunks, chunk_index |-> run.chunk_index,
                sentences |-> Sentences(PageText), i |-> 1, current_chunk |-> <<>>]
          ELSE [pc |-> "while", page_num |-> run.page_num,
                chunks |-> run.chunks, chunk_index |-> run.chunk_index, start |-> 0]
    /\ UNCHANGED <<chunkVars, storeVars, req, qry, emb>>

\* `while start < len(page_text)`: one pass of the body.
WhilePass ==
    /\ run.pc = "while"
    /\ run.start < Len(PageText)
    /\ LET st == WindowBody([chunks |-> run.chunks, chunk_index |-> run.chunk_index,
                             start |-> run.start],
                            PageText, run.page_num, max_chars, overlap)
       IN  run' = [run EXCEPT !.chunks = st.chunks, !.chunk_index = st.chunk_index,
                              !.start = st.start]
    /\ UNCHANGED <<chunkVars, storeVars, req, qry, emb>>

\* The while loop's test fails: on to the next page.
WhileExit ==
    /\ run.pc = "while"
    /\ ~(run.start < Len(PageText))
    /\ run' = [pc |-> "for", page_num |-> run.page_num + 1,
               chunks |-> run.chunks, chunk_index |-> run.chunk_index]
    /\ UNCHANGED <<chunkVars, storeVars, req, qry, emb>>

\* `for sentence in sentences`: one pass of the body.
SentencePass ==
    /\ run.pc = "for_sentence"
    /\ run.i <= Len(run.sentences)
    /\ LET st == SentenceBody([chunks |-> run.chunks, chunk_index |-> run.chunk_index,
                               current_chunk |-> run.current_chunk],
                              run.sentences[run.i], run.page_num, max_chars, overlap)
       IN  run' = [run EXCEPT !.chunks = st.chunks, !.chunk_index = st.chunk_index,
                              !.current_chunk = st.current_chunk, !.i = @ + 1]
    /\ UNCHANGED <<chunkVars, storeVars, req, qry, emb>>

\* The sentences are used up: the last chunk, and on to the next page.
SentenceExit ==
    /\ run.pc = "for_sentence"
    /\ run.i > Len(run.sentences)
    /\ LET acc == LastChunk([chunks |-> run.chunks, chunk_index |-> run.chunk_index,
                             current_chunk |-> run.current_chunk], run.page_num)
       IN  run' = [pc |-> "for", page_num |-> run.page_num + 1,
                   chunks |-> acc.chunks, chunk_index |-> acc.chunk_index]
    /\ UNCHANGED <<chunkVars, storeVars, req, qry, emb>>

\* The pages are used up: `return chunks`.
Return ==
    /\ run.pc = "for"
    /\ run.page_num = Len(pages)
    /\ chunks' = run.chunks
    /\ cpc' = "done"
    /\ run' = [pc |-> "returned"]
    /\ UNCHANGED <<pages, max_chars, overlap, use_smart_chunking, storeVars, req, qry, emb>>

LoopNext ==
    \/ ForPage
    \/ WhilePass
    \/ WhileExit
    \/ SentencePass
    \/ SentenceExit
    \/ Return

\* A running Python call keeps executing: weak fairness of its next step.
LoopSpec == LoopInit /\ [][LoopNext]_vars /\ WF_vars(LoopNext)

(***************************************************************************)
(* chunk_text alone, statement by statement, on one page of letters and    *)
(* spaces of up to MaxLongPage characters, so that a page takes many       *)
(* windows.                                                                *)
(***************************************************************************)
WindowTexts == UNION {[1..k -> {"a", " "}] : k \in 0..MaxLongPage}

WindowInit ==
    /\ pages \in {<<t>> : t \in WindowTexts}
    /\ max_chars \in 1..MaxCharsBound
    /\ overlap \in 0..MaxCharsBound
    /\ use_smart_chunking = FALSE
    /\ chunks = <<>>
    /\ cpc = "input"
    /\ run = [pc |-> "for", page_num |-> 0, chunks |-> <<>>, chunk_index |-> 0]
    /\ StoreIdle
    /\ req = NoRequest
    /\ ServiceIdle

WindowNext ==
    \/ ForPage
    \/ WhilePass
    \/ WhileExit
    \/ Return

WindowSpec == WindowInit /\ [][WindowNext]_vars /\ WF_vars(WindowNext)

(***************************************************************************)
(* The storage specification: ingest_document_with_chunks statement by     *)
(* statement, called up to MaxCalls times, where any statement that        *)
(* touches the session may raise.                                          *)
(***************************************************************************)
Letters(n) == [j \in 1..n |-> "a"]

\* The embedding model's vector for a text.
Vector(text) == [dim |-> EMBEDDING_DIMENSION, of |-> text]

\* Chunk dicts as the chunkers build them, with distinct texts.
Drafts(n) == [j \in 1..n |-> ChunkDict(Letters(j), 0, j - 1)]

Vectors(m) == [j \in 1..m |-> Vector(Letters(j))]

St(c) == [store |-> store, session |-> session[c]]

\* The call begins: `db = get_db()`.  before is the committed store the
\* call found; doc_id is empty until create_document has returned the id.
Call(c) ==
    /\ call[c].pc \in {"idle", "returned", "raised"}
    /\ ncalls < MaxCalls
    /\ \E n \in 0..MaxChunks, m \in 0..MaxChunks :
          call' = [call EXCEPT ![c] =
              [pc |-> "create_document", title |-> <<"t">>, file_path |-> None,
               chunks |-> Drafts(n), embeddings |-> Vectors(m),
               doc_id |-> <<>>, i |-> 0, result |-> [status |-> "none"],
               error |-> None, opened |-> 1,
               before |-> [documents |-> store.documents, chunks |-> store.chunks]]]
    /\ session' = [session EXCEPT ![c] = SessionLocal]
    /\ ncalls' = ncalls + 1
    /\ UNCHANGED <<store, chunkVars, run, req, qry, emb>>

CreateDocument(c) ==
    /\ call[c].pc = "create_document"
    /\ LET d == create_document(St(c), call[c].title, call[c].file_path,
                                Len(call[c].chunks))
       IN  /\ store' = d.store
           /\ session' = [session EXCEPT ![c] = d.session]
           /\ call' = [call EXCEPT ![c].pc = "create_chunks", ![c].doc_id = <<d.id>>]
    /\ UNCHANGED <<ncalls, chunkVars, run, req, qry, emb>>

\* create_document raises: the INSERT of the document fails.
CreateDocumentRaises(c) ==
    /\ call[c].pc = "create_document"
    /\ session' = [session EXCEPT ![c] =
          SessionAdd(St(c), Document(call[c].title, call[c].file_path,
                                     Len(call[c].chunks))).session]
    /\ call' = [call EXCEPT ![c].pc = "except", ![c].error = "DatabaseError"]
    /\ UNCHANGED <<store, ncalls, chunkVars, run, req, qry, emb>>

\* create_chunks: the length test; ValueError when the lengths differ.
CreateChunksEnter(c) ==
    /\ call[c].pc = "create_chunks"
    /\ call' = IF CountMismatch(call[c].chunks, call[c].embeddings)
               THEN [call EXCEPT ![c].pc = "except", ![c].error = "ValueError"]
               ELSE [call EXCEPT ![c].pc = "add_chunk"]
    /\ UNCHANGED <<store, session, ncalls, chunkVars, run, req, qry, emb>>

\* One pass of the loop; embeddings[i] past the end raises IndexError.
AddChunkPass(c) ==
    /\ call[c].pc = "add_chunk"
    /\ call[c].i < Len(call[c].chunks)
    /\ IF call[c].i < Len(call[c].embeddings)
       THEN /\ session' = [session EXCEPT ![c] =
                  AddChunk(St(c), call[c].doc_id[1], call[c].chunks,
                           call[c].embeddings, call[c].i).session]
            /\ call' = [call EXCEPT ![c].i = @ + 1]
       ELSE /\ session' = session
            /\ call' = [call EXCEPT ![c].pc = "except", ![c].error = "IndexError"]
    /\ UNCHANGED <<store, ncalls, chunkVars, run, req, qry, emb>>

\* Building or adding chunk i raises.
AddChunkRaises(c) ==
    /\ call[c].pc = "add_chunk"
    /\ call[c].i < Len(call[c].chunks)
    /\ call' = [call EXCEPT ![c].pc = "except", ![c].error = "Exception"]
    /\ UNCHANGED <<store, session, ncalls, chunkVars, run, req, qry, emb>>

\* create_chunks: db.flush() after the loop.
FlushChunks(c) ==
    /\ call[c].pc = "add_chunk"
    /\ call[c].i = Len(call[c].chunks)
    /\ LET f == SessionFlush(St(c))
       IN  store' = f.store /\ session' = [session EXCEPT ![c] = f.session]
    /\ call' = [call EXCEPT ![c].pc = "commit"]
    /\ UNCHANGED <<ncalls, chunkVars, run, req, qry, emb>>

\* The flush raises at the INSERT of chunk k + 1, the first k being written.
FlushChunksRaises(c) ==
    /\ call[c].pc = "add_chunk"
    /\ call[c].i = Len(call[c].chunks)
    /\ \E k \in 0..(Len(call[c].chunks) - 1) :
          LET f == FlushFirst(St(c), k)
          IN  store' = f.store /\ session' = [session EXCEPT ![c] = f.session]
    /\ call' = [call EXCEPT ![c].pc = "except", ![c].error = "DatabaseError"]
    /\ UNCHANGED <<ncalls, chunkVars, run, req, qry, emb>>

\* db.commit(), and the return of the result dict.
Commit(c) ==
    /\ call[c].pc = "commit"
    /\ LET f == SessionCommit(St(c))
       IN  store' = f.store /\ session' = [session EXCEPT ![c] = f.session]
    /\ call' = [call EXCEPT ![c].pc = "finally",
                            ![c].result = [status |-> "success",
                                           document_id |-> call[c].doc_id[1],
                                           num_chunks |-> Len(call[c].chunks)]]
    /\ UNCHANGED <<ncalls, chunkVars, run, req, qry, emb>>

\* db.commit() raises: nothing has become durable.
CommitRaises(c) ==
    /\ call[c].pc = "commit"
    /\ call' = [call EXCEPT ![c].pc = "except", ![c].error = "DatabaseError"]
    /\ UNCHANGED <<store, session, ncalls, chunkVars, run, req, qry, emb>>

\* `except Exception: db.rollback(); raise`
Except(c) ==
    /\ call[c].pc = "except"
    /\ LET f == SessionRollback(St(c))
       IN  store' = f.store /\ session' = [session EXCEPT ![c] = f.session]
    /\ call' = [call EXCEPT ![c].pc = "finally", ![c].result = [status |-> "raised"]]
    /\ UNCHANGED <<ncalls, chunkVars, run, req, qry, emb>>

\* `finally: db.close()`, and the call is over.
Finally(c) ==
    /\ call[c].pc = "finally"
    /\ LET f == SessionClose(St(c))
       IN  store' = f.store /\ session' = [session EXCEPT ![c] = f.session]
    /\ call' = [call EXCEPT ![c].pc =
          IF call[c].result.status = "success" THEN "returned" ELSE "raised"]
    /\ UNCHANGED <<ncalls, chunkVars, run, req, qry, emb>>

StoreStep(c) ==
    \/ Call(c)
    \/ CreateDocument(c)
    \/ CreateDocumentRaises(c)
    \/ CreateChunksEnter(c)
    \/ AddChunkPass(c)
    \/ AddChunkRaises(c)
    \/ FlushChunks(c)
    \/ FlushChunksRaises(c)
    \/ Commit(c)
    \/ CommitRaises(c)
    \/ Except(c)
    \/ Finally(c)

ChunkerIdle ==
    /\ pages = <<>>
    /\ max_chars = 1
    /\ overlap = 0
    /\ use_smart_chunking = TRUE
    /\ chunks = <<>>
    /\ cpc = "none"
    /\ run = NotRunning

StoreInit == StoreIdle /\ ChunkerIdle /\ req = NoRequest /\ ServiceIdle

StoreNext == \E c \in Callers : StoreStep(c)

StoreSpec == StoreInit /\ [][StoreNext]_vars

(***************************************************************************)
(* main.py: the /ingest handler, statement by statement.  The upload is    *)
(* the page texts the extractor finds in it.                               *)
(***************************************************************************)
\* The loaded embedding model: what matters of it is the length of the
\* vectors it produces, which the configured EMBEDDING_DIMENSION only
\* describes.
Models == {[dimension |-> EMBEDDING_DIMENSION], [dimension |-> EMBEDDING_DIMENSION + 1]}

\* embeddings.py, generate_embeddings_batch: model.encode(texts), one vector
\* per text, in order.
generate_embeddings_batch(model, texts) ==
    [j \in DOMAIN texts |-> [Vector(texts[j]) EXCEPT !.dim = model.dimension]]

\* embeddings.py, encode_chunks: the texts of the chunks, in chunk order,
\* handed to generate_embeddings_batch; what comes back is returned as is.
encode_chunks(model, chunk_list) ==
    IF chunk_list = <<>> THEN <<>>
    ELSE generate_embeddings_batch(model,
             [j \in DOMAIN chunk_list |-> chunk_list[j].text])

\* s.endswith(suffix)
EndsWith(s, suffix) ==
    /\ Len(s) >= Len(suffix)
    /\ SubSeq(s, Len(s) - Len(suffix) + 1, Len(s)) = suffix

DotPdf == <<".", "p", "d", "f">>

Filenames == {<<"a">> \o DotPdf, <<"a", ".", "t", "x", "t">>}

\* The title form field, Optional[str]: <<>> is None, <<s>> is the string s.
Titles == {<<>>, << <<>> >>, << <<"T">> >>}

\* Python truth of an Optional[str]: None and '' are false.
Truthy(opt) == opt # <<>> /\ opt[1] # <<>>

\* The signature of db.ingest_document_with_chunks.
IngestParameters ==
    [required |-> {"title", "chunks", "embeddings"}, optional |-> {"file_path"}]

\* The keywords of the call in ingest_pdf.
IngestCallKeywords == {"title", "chunks", "embeddings", "filename"}

\* Python binds a keyword call when every keyword names a parameter and
\* every required parameter is given; otherwise the call raises TypeError
\* before the function body runs.
Binds(keywords, parameters) ==
    /\ keywords \subseteq (parameters.required \cup parameters.optional)
    /\ parameters.required \subseteq keywords

\* A store that earlier direct calls of the storage function have filled.
FilledStore ==
    ingest_document_with_chunks(EmptyStore, <<"t">>, Drafts(1), Vectors(1), None).store

IngestInit ==
    /\ ChunkerIdle
    /\ ServiceIdle
    /\ session = [c \in Callers |-> NoSession]
    /\ call = [c \in Callers |-> Idle]
    /\ ncalls = 0
    /\ store \in {EmptyStore, FilledStore}
    /\ \E f \in Filenames, t \in Titles, ps \in DocsWithin(MaxUploadSize),
          model \in Models :
          req = [pc |-> "validate", filename |-> f, title |-> t, upload |-> ps,
                 model |-> model,
                 doc_title |-> <<>>, temp_file |-> None, temp_path |-> <<>>,
                 temp_on_disk |-> FALSE,
                 chunks |-> <<>>, embeddings |-> <<>>, faulted |-> FALSE,
                 steps |-> <<>>,
                 before |-> [documents |-> store.documents, chunks |-> store.chunks],
                 response |-> None]

HttpError(code) == [status_code |-> code]

\* HTTPException(status_code=400, detail="No text could be extracted from PDF")
EmptyDocument == [status_code |-> 400, detail |-> "No text could be extracted from PDF"]

\* `if not file.filename.endswith('.pdf')`, and the default title.
Validate ==
    /\ req.pc = "validate"
    /\ req' = IF ~EndsWith(req.filename, DotPdf)
              THEN [req EXCEPT !.pc = "responded", !.response = HttpError(400)]
              ELSE [req EXCEPT !.pc = "save_upload",
                               !.doc_title = IF Truthy(req.title)
                                             THEN req.title[1] ELSE req.filename]
    /\ UNCHANGED <<chunkVars, run, storeVars, qry, emb>>

\* `with NamedTemporaryFile(delete=False, suffix='.pdf') as temp_file`: the
\* file is created, the upload is copied into it, and temp_path is bound.
\* temp_path is <<>> while the name is unbound.
SaveUpload ==
    /\ req.pc = "save_upload"
    /\ req' = [req EXCEPT !.pc = "extract", !.temp_file = "NamedTemporaryFile",
                          !.temp_path = <<"tmp.pdf">>, !.temp_on_disk = TRUE]
    /\ UNCHANGED <<chunkVars, run, storeVars, qry, emb>>

\* NamedTemporaryFile raises: no file is created and temp_file stays None.
CreateTempRaises ==
    /\ req.pc = "save_upload"
    /\ req' = [req EXCEPT !.pc = "finally", !.faulted = TRUE,
                          !.response = HttpError(500)]
    /\ UNCHANGED <<chunkVars, run, storeVars, qry, emb>>

\* shutil.copyfileobj raises inside the `with`: the file exists and
\* temp_file is bound, but `temp_path = temp_file.name` was not reached.
CopyUploadRaises ==
    /\ req.pc = "save_upload"
    /\ req' = [req EXCEPT !.pc = "finally", !.faulted = TRUE,
                          !.temp_file = "NamedTemporaryFile", !.temp_on_disk = TRUE,
                          !.response = HttpError(500)]
    /\ UNCHANGED <<chunkVars, run, storeVars, qry, emb>>

\* Faulty variant: an empty chunk list goes on to the embedder.
ExtractAndChunkStep_NoEmptyCheck ==
    /\ req.pc = "extract"
    /\ req' = [req EXCEPT !.pc = "embed", !.steps = Append(@, "extract"),
                          !.chunks = extract_and_chunk_pdf(req.upload, IngestMaxChars,
                                                           IngestOverlap, TRUE)]
    /\ UNCHANGED <<chunkVars, run, storeVars, qry, emb>>

\* Step 1: extract_and_chunk_pdf, then `if not chunks: raise HTTPException(400)`,
\* which `except HTTPException: raise` lets through.
ExtractAndChunkStep ==
    /\ req.pc = "extract"
    /\ LET cs == extract_and_chunk_pdf(req.upload, IngestMaxChars, IngestOverlap, TRUE)
       IN  req' = IF cs = <<>>
                  THEN [req EXCEPT !.pc = "finally", !.chunks = cs,
                                   !.steps = Append(@, "extract"),
                                   !.response = EmptyDocument]
                  ELSE [req EXCEPT !.pc = "embed", !.chunks = cs,
                                   !.steps = Append(@, "extract")]
    /\ UNCHANGED <<chunkVars, run, storeVars, qry, emb>>

\* The extractor raises: `except Exception` answers 500.
ExtractRaises ==
    /\ req.pc = "extract"
    /\ req' = [req EXCEPT !.pc = "finally", !.faulted = TRUE,
                          !.steps = Append(@, "extract"),
                          !.response = HttpError(500)]
    /\ UNCHANGED <<chunkVars, run, storeVars, qry, emb>>

\* Step 2: encode_chunks.
EncodeChunks ==
    /\ req.pc = "embed"
    /\ req' = [req EXCEPT !.pc = "store", !.steps = Append(@, "embed"),
                          !.embeddings = encode_chunks(req.model, req.chunks)]
    /\ UNCHANGED <<chunkVars, run, storeVars, qry, emb>>

\* Faulty variant: a failed embedding step is tried once more.
EncodeRaises_Retries ==
    /\ req.pc = "embed"
    /\ req' = IF Len(req.steps) < 2
              THEN [req EXCEPT !.faulted = TRUE, !.steps = Append(@, "embed")]
              ELSE [req EXCEPT !.pc = "finally", !.faulted = TRUE,
                               !.steps = Append(@, "embed"),
                               !.response = HttpError(500)]
    /\ UNCHANGED <<chunkVars, run, storeVars, qry, emb>>

\* The embedding model raises: `except Exception` answers 500.
EncodeRaises ==
    /\ req.pc = "embed"
    /\ req' = [req EXCEPT !.pc = "finally", !.faulted = TRUE,
                          !.steps = Append(@, "embed"),
                          !.response = HttpError(500)]
    /\ UNCHANGED <<chunkVars, run, storeVars, qry, emb>>

\* Step 3: the call of ingest_document_with_chunks and the IngestResponse;
\* a call that does not bind, or raises, is answered 500.
StoreChunks ==
    /\ req.pc = "store"
    /\ IF Binds(IngestCallKeywords, IngestParameters)
       THEN LET r == ingest_document_with_chunks(store, req.doc_title, req.chunks,
                                                 req.embeddings, None)
            IN  /\ store' = r.store
                /\ req' = [req EXCEPT !.pc = "finally",
                              !.steps = Append(@, "store"),
                              !.response =
                                  IF r.status = "success"
                                  THEN [status_code |-> 200, status |-> r.status,
                                        document_id |-> r.document_id,
                                        num_chunks |-> r.num_chunks,
                                        title |-> req.doc_title]
                                  ELSE HttpError(500)]
       ELSE /\ store' = store
            /\ req' = [req EXCEPT !.pc = "finally", !.steps = Append(@, "store"),
                             !.response = HttpError(500)]
    /\ UNCHANGED <<chunkVars, run, session, call, ncalls, qry, emb>>

\* `finally: if temp_file and os.path.exists(temp_path): os.unlink(temp_path)`.
\* With temp_file bound and temp_path not, the test raises UnboundLocalError,
\* which takes the place of the pending exception: the request is answered
\* 500 and nothing is unlinked.
CleanUp ==
    /\ req.pc = "finally"
    /\ req' = IF req.temp_file = None
              THEN [req EXCEPT !.pc = "responded"]
              ELSE IF req.temp_path = <<>>
              THEN [req EXCEPT !.pc = "responded", !.response = HttpError(500)]
              ELSE [req EXCEPT !.pc = "responded", !.temp_on_disk = FALSE]
    /\ UNCHANGED <<chunkVars, run, storeVars, qry, emb>>

IngestNext ==
    \/ Validate
    \/ SaveUpload
    \/ CreateTempRaises
    \/ CopyUploadRaises
    \/ ExtractAndChunkStep
    \/ ExtractRaises
    \/ EncodeChunks
    \/ EncodeRaises
    \/ StoreChunks
    \/ CleanUp

IngestSpec == IngestInit /\ [][IngestNext]_vars

(***************************************************************************)
(* main.py: the /query handler, statement by statement, with db.py's       *)
(* search_similar_chunks.  The distances are the ones the database         *)
(* computes for the query vector: one value for each stored vector.        *)
(***************************************************************************)
\* embeddings.py, generate_embedding: the model's vector for one text.
generate_embedding(text) == Vector(text)

\* A store filled by one or two successful ingestions.
StoreWith(n1, n2) ==
    LET first == ingest_document_with_chunks(EmptyStore, <<"t">>, Drafts(n1),
                                             Vectors(n1), None).store
    IN  IF n2 = 0 THEN first
        ELSE ingest_document_with_chunks(first, <<"t">>, Drafts(n2),
                                         Vectors(n2), None).store

QueryStores ==
    {EmptyStore} \cup
    {StoreWith(n[1], n[2]) :
        n \in {m \in (1..MaxQueryChunks) \X (0..MaxQueryChunks) :
                  m[1] + m[2] <= MaxQueryChunks}}

StoredVectors(st) == {ch.embedding : ch \in st.chunks}

\* QueryRequest.top_k is an int without a constraint.
TopKs == (0 - 1)..MaxTopK

\* QueryRequest.document_id, Optional[int]: <<>> is None, <<n>> is n.
DocumentIds == {<<>>} \cup {<<n>> : n \in 0..3}

\* Python truth of an Optional[int]: None and 0 are false.
TruthyInt(opt) == opt # <<>> /\ opt[1] # 0

\* ORDER BY distance: every order of the rows with non-decreasing distance;
\* rows at the same distance come in any order.
Rankings(rows, d) ==
    {r \in [1..Cardinality(rows) -> rows] :
        \A i, j \in 1..Cardinality(rows) :
            i < j => r[i] # r[j] /\ d[r[i].embedding] <= d[r[j].embedding]}

\* search_similar_chunks: the possible results of
\* query(Chunk, distance).order_by("distance").limit(limit).all(), a list
\* of (Chunk, distance).
search_similar_chunks(st, d, limit) ==
    {[i \in 1..(IF limit < Len(r) THEN limit ELSE Len(r)) |->
         [chunk |-> r[i], distance |-> d[r[i].embedding]]] :
     r \in Rankings(st.chunks, d)}

\* getattr(obj, name) raises AttributeError when the object has no such
\* attribute.
HasAttr(obj, name) == name \in DOMAIN obj

\* The ChunkResult built from one (chunk, distance).
ChunkResult(r) ==
    [chunk_id |-> r.chunk.id, document_id |-> r.chunk.document_id,
     chunk_index |-> r.chunk.chunk_index, page_start |-> r.chunk.page_start,
     page_end |-> r.chunk.page_end, text |-> r.chunk.text,
     distance |-> r.distance]

\* HTTPException(status_code=500, detail=f"Query failed: {str(e)}")
QueryFailed(e) == [status_code |-> 500, detail |-> <<"Query failed", e>>]

QueryInit ==
    /\ ChunkerIdle
    /\ session = [c \in Callers |-> NoSession]
    /\ call = [c \in Callers |-> Idle]
    /\ ncalls = 0
    /\ req = NoRequest
    /\ emb = NoEmbedder
    /\ store \in QueryStores
    /\ \E q \in {<<>>, <<"a">>}, k \in TopKs, id \in DocumentIds,
          d \in [StoredVectors(store) -> 0..MaxDistance] :
          qry = [pc |-> "embed", query |-> q, top_k |-> k, document_id |-> id,
                 dist |-> d, query_embedding |-> <<>>, db |-> "none",
                 opened |-> 0, searches |-> <<>>, results |-> <<>>,
                 raised |-> <<>>, fault |-> FALSE, response |-> None]

\* Step 1: query_embedding = generate_embedding(request.query)
QueryEmbed ==
    /\ qry.pc = "embed"
    /\ qry' = [qry EXCEPT !.pc = "get_db",
                          !.query_embedding = <<generate_embedding(qry.query)>>]
    /\ UNCHANGED <<chunkVars, run, storeVars, req, emb>>

\* generate_embedding raises: outside the inner try, straight to `except`.
QueryEmbedRaises ==
    /\ qry.pc = "embed"
    /\ qry' = [qry EXCEPT !.pc = "except", !.raised = <<"EmbeddingError">>,
                          !.fault = TRUE]
    /\ UNCHANGED <<chunkVars, run, storeVars, req, emb>>

\* db = get_db()
QueryGetDb ==
    /\ qry.pc = "get_db"
    /\ qry' = [qry EXCEPT !.pc = "search", !.db = "open", !.opened = @ + 1]
    /\ UNCHANGED <<chunkVars, run, storeVars, req, emb>>

\* results = search_similar_chunks(db, query_embedding, limit=top_k * 2);
\* the database rejects a negative LIMIT.
QuerySearch ==
    /\ qry.pc = "search"
    /\ LET limit == qry.top_k * 2
       IN  IF limit < 0
           THEN qry' = [qry EXCEPT !.pc = "finally", !.searches = Append(@, limit),
                                   !.raised = <<"DatabaseError">>]
           ELSE \E found \in search_similar_chunks(store, qry.dist, limit) :
                   qry' = [qry EXCEPT !.pc = "filter", !.results = found,
                                      !.searches = Append(@, limit)]
    /\ UNCHANGED <<chunkVars, run, storeVars, req, emb>>

\* The search raises for a reason of the database's own.
QuerySearchRaises ==
    /\ qry.pc = "search"
    /\ qry' = [qry EXCEPT !.pc = "finally", !.searches = Append(@, qry.top_k * 2),
                          !.raised = <<"DatabaseError">>, !.fault = TRUE]
    /\ UNCHANGED <<chunkVars, run, storeVars, req, emb>>

\* `if request.document_id:` filter and truncate, else truncate.
QueryFilter ==
    /\ qry.pc = "filter"
    /\ LET matching(r) == r.chunk.document_id = qry.document_id[1]
           kept == IF TruthyInt(qry.document_id)
                   THEN SelectSeq(qry.results, matching)
                   ELSE qry.results
       IN  qry' = [qry EXCEPT !.pc = "convert",
                              !.results = Slice(kept, 0, qry.top_k)]
    /\ UNCHANGED <<chunkVars, run, storeVars, req, emb>>

\* chunk_results = [ChunkResult(..., text=chunk.text, ...) for ...] and the
\* QueryResponse; reading an attribute the Chunk does not have raises.
QueryConvert ==
    /\ qry.pc = "convert"
    /\ qry' = IF \A i \in DOMAIN qry.results : HasAttr(qry.results[i].chunk, "text")
              THEN [qry EXCEPT !.pc = "finally",
                        !.response =
                            [status_code |-> 200, query |-> qry.query,
                             num_results |-> Len(qry.results),
                             results |-> [i \in DOMAIN qry.results |->
                                             ChunkResult(qry.results[i])]]]
              ELSE [qry EXCEPT !.pc = "finally", !.raised = <<"AttributeError">>]
    /\ UNCHANGED <<chunkVars, run, storeVars, req, emb>>

\* Faulty variant: the session is not closed.
QueryFinally_NoClose ==
    /\ qry.pc = "finally"
    /\ qry' = [qry EXCEPT !.pc = IF qry.raised = <<>> THEN "responded" ELSE "except"]
    /\ UNCHANGED <<chunkVars, run, storeVars, req, emb>>

\* `finally: db.close()`, then the return or the pending exception.
QueryFinally ==
    /\ qry.pc = "finally"
    /\ qry' = [qry EXCEPT !.db = "closed",
                          !.pc = IF qry.raised = <<>> THEN "responded" ELSE "except"]
    /\ UNCHANGED <<chunkVars, run, storeVars, req, emb>>

\* Faulty variant: the exception is swallowed and a success without results
\* is returned.
QueryExcept_ReturnsSuccess ==
    /\ qry.pc = "except"
    /\ qry' = [qry EXCEPT !.pc = "responded",
                          !.response = [status_code |-> 200, query |-> qry.query,
                                        num_results |-> 0, results |-> <<>>]]
    /\ UNCHANGED <<chunkVars, run, storeVars, req, emb>>

\* `except Exception as e: raise HTTPException(500, ...)`
QueryExcept ==
    /\ qry.pc = "except"
    /\ qry' = [qry EXCEPT !.pc = "responded",
                          !.response = QueryFailed(qry.raised[1])]
    /\ UNCHANGED <<chunkVars, run, storeVars, req, emb>>

QueryNext ==
    \/ QueryEmbed
    \/ QueryEmbedRaises
    \/ QueryGetDb
    \/ QuerySearch
    \/ QuerySearchRaises
    \/ QueryFilter
    \/ QueryConvert
    \/ QueryFinally
    \/ QueryExcept

QuerySpec == QueryInit /\ [][QueryNext]_vars

(***************************************************************************)
(* The users of storage sessions: a run is either a series of              *)
(* ingest_document_with_chunks calls or one /query request.                *)
(***************************************************************************)
SessionInit == StoreInit \/ QueryInit

\* A storage call's step in a run without /query request.
SessionStoreStep(c) == qry = NoQuery /\ StoreStep(c)

SessionNext ==
    \/ \E c \in Callers : SessionStoreStep(c)
    \/ QueryNext

SessionSpec == SessionInit /\ [][SessionNext]_vars

(***************************************************************************)
(* embeddings.py: get_embedding_model, statement by statement, called by   *)
(* concurrent threads through generate_embedding and                       *)
(* generate_embeddings_batch.  An instance is named by the number of the   *)
(* constructor run that made it.                                           *)
(***************************************************************************)
Threads == {"t1", "t2"}

EmbedEntries == {"generate_embedding", "generate_embeddings_batch"}

ThreadIdle == [pc |-> "idle", entry |-> None, made |-> <<>>, model |-> <<>>, calls |-> 0]

\* `_embedding_model = None` at import.
EmbedInit ==
    /\ ChunkerIdle
    /\ StoreIdle
    /\ req = NoRequest
    /\ qry = NoQuery
    /\ emb = [pc |-> "loaded", _embedding_model |-> <<>>, constructed |-> 0,
              thread |-> [t \in Threads |-> ThreadIdle]]

\* model = get_embedding_model(), first statement of both entry points.
EmbedCall(t) ==
    /\ emb.pc = "loaded"
    /\ emb.thread[t].pc \in {"idle", "done"}
    /\ emb.thread[t].calls < MaxEmbedCalls
    /\ \E e \in EmbedEntries :
          emb' = [emb EXCEPT !.thread[t] =
                     [pc |-> "check", entry |-> e, made |-> <<>>, model |-> <<>>,
                      calls |-> emb.thread[t].calls + 1]]
    /\ UNCHANGED <<chunkVars, run, storeVars, req, qry>>

\* `if _embedding_model is None:`
CheckModel(t) ==
    /\ emb.pc = "loaded"
    /\ emb.thread[t].pc = "check"
    /\ emb' = [emb EXCEPT !.thread[t].pc =
                  IF emb._embedding_model = <<>> THEN "construct" ELSE "return"]
    /\ UNCHANGED <<chunkVars, run, storeVars, req, qry>>

\* SentenceTransformer(EMBEDDING_MODEL_NAME): the constructor runs.
ConstructModel(t) ==
    /\ emb.pc = "loaded"
    /\ emb.thread[t].pc = "construct"
    /\ emb' = [emb EXCEPT !.constructed = @ + 1,
                          !.thread[t].made = <<emb.constructed + 1>>,
                          !.thread[t].pc = "assign"]
    /\ UNCHANGED <<chunkVars, run, storeVars, req, qry>>

\* `_embedding_model = ...`: the store to the global.
AssignModel(t) ==
    /\ emb.pc = "loaded"
    /\ emb.thread[t].pc = "assign"
    /\ emb' = [emb EXCEPT !._embedding_model = emb.thread[t].made,
                          !.thread[t].pc = "return"]
    /\ UNCHANGED <<chunkVars, run, storeVars, req, qry>>

\* `return _embedding_model`: the global as it is now.
ReturnModel(t) ==
    /\ emb.pc = "loaded"
    /\ emb.thread[t].pc = "return"
    /\ emb' = [emb EXCEPT !.thread[t].model = emb._embedding_model,
                          !.thread[t].pc = "encode"]
    /\ UNCHANGED <<chunkVars, run, storeVars, req, qry>>

\* model.encode(...) and the return of the entry point.
Encode(t) ==
    /\ emb.pc = "loaded"
    /\ emb.thread[t].pc = "encode"
    /\ emb' = [emb EXCEPT !.thread[t].pc = "done"]
    /\ UNCHANGED <<chunkVars, run, storeVars, req, qry>>

EmbedStep(t) ==
    \/ EmbedCall(t)
    \/ CheckModel(t)
    \/ ConstructModel(t)
    \/ AssignModel(t)
    \/ ReturnModel(t)
    \/ Encode(t)

EmbedNext == \E t \in Threads : EmbedStep(t)

EmbedSpec == EmbedInit /\ [][EmbedNext]_vars

(***************************************************************************)
(* Claims about the chunkers, read off the returned list.                  *)
(***************************************************************************)
Blank(page_text) == Strip(page_text) = <<>>

\* The chunks labelled with the page at zero-based position p.
ChunksOfPage(p) ==
    {i \in DOMAIN chunks : chunks[i].page_start = p \/ chunks[i].page_end = p}

\* C4: the chunk_index values of the returned chunks, in emission order, are
\* exactly 0, 1, ..., n-1, for either chunker and any pages and parameters.
C4_IndexIsPosition ==
    cpc = "done" => \A i \in DOMAIN chunks : chunks[i].chunk_index = i - 1

\* C4 witness: a result whose chunks come from two pages, the first page
\* giving at least two of them, so a per-page counter would repeat a value.
C4_Witness ==
    /\ cpc = "done"
    /\ Len(chunks) >= 3
    /\ chunks[1].page_start = 0
    /\ chunks[2].page_start = 0
    /\ chunks[Len(chunks)].page_start = 1

OneChunkOnItsPage(k) ==
    /\ Cardinality(ChunksOfPage(k - 1)) = 1
    /\ \A i \in ChunksOfPage(k - 1) :
          chunks[i].page_start = k - 1 /\ chunks[i].page_end = k - 1

\* C5 as stated: every page with len(text) <= max_chars yields exactly one
\* chunk, with page_start = page_end = the page's index, whatever the overlap.
C5_EveryFittingPageOneChunk ==
    cpc = "done" =>
        \A k \in DOMAIN pages : Len(pages[k]) <= max_chars => OneChunkOnItsPage(k)

\* C5 amended: every page with len(text) <= max_chars whose trimmed text is
\* not empty yields exactly one chunk, with page_start = page_end = the
\* page's index, whatever the overlap.
C5_NonBlankFittingPageOneChunk ==
    cpc = "done" =>
        \A k \in DOMAIN pages :
            (Len(pages[k]) <= max_chars /\ ~Blank(pages[k])) => OneChunkOnItsPage(k)

\* C5 witness: a non-blank page of exactly max_chars characters, chunked with
\* a positive overlap, next to another page.
C5_Witness ==
    /\ cpc = "done"
    /\ overlap > 0
    /\ Len(pages) >= 2
    /\ \E k \in DOMAIN pages : Len(pages[k]) = max_chars /\ ~Blank(pages[k])

\* The positions (1-based) of the pages that are not blank, in order.
RECURSIVE KeptPositions(_, _)
KeptPositions(ps, k) ==
    IF k > Len(ps) THEN <<>>
    ELSE (IF Blank(ps[k]) THEN <<>> ELSE <<k>>) \o KeptPositions(ps, k + 1)

\* C6: a blank page produces no chunk and uses up no chunk_index, and the
\* page index still advances: the result is the result for the document
\* without its blank pages, each chunk relabelled with its page's original
\* zero-based position.
C6_BlankPagesOnlyShiftPageNumbers ==
    cpc = "done" =>
        LET kept == KeptPositions(pages, 1)
            ref == extract_and_chunk_pdf([j \in DOMAIN kept |-> pages[kept[j]]],
                                         max_chars, overlap, use_smart_chunking)
        IN  /\ \A k \in DOMAIN pages : Blank(pages[k]) => ChunksOfPage(k - 1) = {}
            /\ Len(chunks) = Len(ref)
            /\ \A i \in DOMAIN chunks :
                  /\ chunks[i].text = ref[i].text
                  /\ chunks[i].chunk_index = ref[i].chunk_index
                  /\ chunks[i].page_start = kept[ref[i].page_start + 1] - 1
                  /\ chunks[i].page_end = kept[ref[i].page_end + 1] - 1

\* C6 witness: a blank page between two pages that both produced chunks.
C6_Witness ==
    /\ cpc = "done"
    /\ Len(pages) = 3
    /\ Blank(pages[2])
    /\ ChunksOfPage(0) # {}
    /\ ChunksOfPage(2) # {}

\* The texts of the chunks labelled with the page at zero-based position p,
\* in emission order.
RECURSIVE TextsFrom(_, _)
TextsFrom(p, i) ==
    IF i > Len(chunks) THEN <<>>
    ELSE (IF chunks[i].page_start = p THEN <<chunks[i].text>> ELSE <<>>) \o TextsFrom(p, i + 1)

TextsOfPage(p) == TextsFrom(p, 1)

RECURSIVE SumLen(_)
SumLen(texts) == IF texts = <<>> THEN 0 ELSE Len(Head(texts)) + SumLen(Tail(texts))

\* text is page_text[s .. s + len(text) - 1] (1-based s).
OccursAt(page_text, text, s) ==
    /\ s + Len(text) - 1 <= Len(page_text)
    /\ \A j \in 1..Len(text) : page_text[s + j - 1] = text[j]

Contains(text, part) == \E s \in 1..(Len(text) + 1) : OccursAt(text, part, s)

\* Each chunk text can be laid on an occurrence of itself in the page so that
\* the positions in `left` are all under some chunk.
RECURSIVE Covered(_, _, _, _)
Covered(page_text, texts, i, left) ==
    IF i > Len(texts) THEN left = {}
    ELSE \E s \in 1..(Len(page_text) + 1) :
            /\ OccursAt(page_text, texts[i], s)
            /\ Covered(page_text, texts, i + 1, left \ (s..(s + Len(texts[i]) - 1)))

\* Each segment lies whole inside a chunk, the chunks taken in segment order.
RECURSIVE InOrder(_, _, _, _)
InOrder(segs, texts, j, c) ==
    IF j > Len(segs) THEN TRUE
    ELSE \E d \in c..Len(texts) :
            Contains(texts[d], segs[j]) /\ InOrder(segs, texts, j + 1, d)

NonEmpty(s) == s # <<>>

\* The non-empty sentence segments of a page, trimmed.
Segments(page_text) ==
    LET raw == Sentences(page_text)
    IN  SelectSeq([j \in DOMAIN raw |-> Strip(raw[j])], NonEmpty)

\* The characters the sentence loop has to place: every sentence, with its
\* full stop, and the blank that joins it to the buffer.
RECURSIVE PlacedLen(_)
PlacedLen(raw) == IF raw = <<>> THEN 0 ELSE Len(Sentence(Head(raw))) + 1 + PlacedLen(Tail(raw))

Boundaries(texts) == IF texts = <<>> THEN 0 ELSE Len(texts) - 1

\* C8, first half: for every page longer than max_chars, the fixed-window
\* chunks cover every non-whitespace position of the page, and the smart
\* chunks hold every non-empty sentence segment whole and in order.
NoContentDropped ==
    cpc = "done" =>
        \A k \in DOMAIN pages :
            Len(pages[k]) > max_chars =>
                IF use_smart_chunking
                THEN InOrder(Segments(pages[k]), TextsOfPage(k - 1), 1, 1)
                ELSE Covered(pages[k], TextsOfPage(k - 1), 1,
                             {i \in DOMAIN pages[k] : ~IsSpace(pages[k][i])})

\* C8, second half: only the overlap region is repeated, so the chunks of a
\* page hold no more characters than the page has to place plus `overlap`
\* characters for each boundary between two of its chunks.
OnlyOverlapRepeated ==
    cpc = "done" =>
        \A k \in DOMAIN pages :
            Len(pages[k]) > max_chars =>
                LET texts == TextsOfPage(k - 1)
                    content == IF use_smart_chunking
                               THEN PlacedLen(Sentences(pages[k]))
                               ELSE Len(pages[k])
                IN  SumLen(texts) <= content + Boundaries(texts) * overlap

\* C8 as stated: chunking drops no content of a page longer than max_chars,
\* and only the overlap region is repeated.
C8_NoContentDroppedOnlyOverlapRepeated == NoContentDropped /\ OnlyOverlapRepeated

\* What remains of C8's second half in the code: it holds whenever a
\* positive overlap is asked for, and for the fixed windows always.
OnlyOverlapRepeatedUnlessSmartZero ==
    (use_smart_chunking /\ overlap = 0) \/ OnlyOverlapRepeated

\* C9 as stated: every chunk either chunker emits has text that is not empty
\* after trimming.
C9_NoEmptyChunk ==
    cpc = "done" => \A i \in DOMAIN chunks : Strip(chunks[i].text) # <<>>

\* C10 as stated: with 0 <= overlap < max_chars, every chunk either chunker
\* emits has at most max_chars characters.
C10_ChunkWithinMaxChars ==
    (cpc = "done" /\ overlap < max_chars) =>
        \A i \in DOMAIN chunks : Len(chunks[i].text) <= max_chars

\* C10 for the fixed windows alone, which do keep to max_chars.
FixedWindowWithinMaxChars ==
    (cpc = "done" /\ ~use_smart_chunking) =>
        \A i \in DOMAIN chunks : Len(chunks[i].text) <= max_chars

\* C7: chunking terminates for every input and every max_chars >= 1 and
\* overlap >= 0, overlap >= max_chars included: each call reaches its return.
C7_Terminates == <>(cpc = "done")

\* C7 witness: a fixed-window call with overlap >= max_chars on a page that
\* needed several windows has returned.
C7_Witness ==
    /\ cpc = "done"
    /\ run.pc = "returned"
    /\ ~use_smart_chunking
    /\ overlap >= max_chars
    /\ Len(pages) >= 1
    /\ Len(pages[1]) > max_chars
    /\ Len(chunks) >= 2

\* The statement-by-statement run returns what the functions compute.
LoopAgrees ==
    cpc = "done" =>
        chunks = extract_and_chunk_pdf(pages, max_chars, overlap, use_smart_chunking)

(***************************************************************************)
(* Claims about the storage transaction and the /ingest handler.           *)
(***************************************************************************)
CallOver(c) == call[c].pc \in {"idle", "returned", "raised"}

AttemptHasId(c) == call[c].doc_id # <<>>

\* C1: after an ingestion attempt in which a statement raised once the
\* session was open, no Document and no Chunk of the attempt is committed,
\* every row committed before the attempt is still there, and when no other
\* caller has been at work the committed store is exactly the one the
\* attempt found.
C1_FailedIngestionLeavesStoreUnchanged ==
    \A c \in Callers :
        call[c].pc = "raised" =>
            /\ call[c].before.documents \subseteq store.documents
            /\ call[c].before.chunks \subseteq store.chunks
            /\ AttemptHasId(c) =>
                  /\ \A d \in store.documents : d.id # call[c].doc_id[1]
                  /\ \A ch \in store.chunks : ch.document_id # call[c].doc_id[1]
            /\ (\A o \in Callers \ {c} : call[o].pc = "idle") =>
                  /\ store.documents = call[c].before.documents
                  /\ store.chunks = call[c].before.chunks

\* C1 witness: an attempt failed after its document and one of its two
\* chunks had been inserted, in a store that held an earlier document, and
\* no other caller was at work.
C1_Witness ==
    \E c \in Callers :
        /\ call[c].pc = "raised"
        /\ AttemptHasId(c)
        /\ call[c].before.documents # {}
        /\ \A o \in Callers \ {c} : call[o].pc = "idle"
        /\ store.chunk_seq - 1 > Cardinality(store.chunks)

\* C2 as stated: after any sequence of calls, with any chunk list and
\* embedding array, every committed Document has at least one committed Chunk
\* and every committed Chunk carries an embedding and refers to a committed
\* Document.
C2_NoDocumentWithoutChunks ==
    (\A c \in Callers : CallOver(c)) =>
        /\ \A d \in store.documents : \E ch \in store.chunks : ch.document_id = d.id
        /\ \A ch \in store.chunks :
              /\ ch.embedding.dim = EMBEDDING_DIMENSION
              /\ \E d \in store.documents : d.id = ch.document_id

\* What the code keeps of C2: a Document committed for a non-empty chunk
\* list has all its Chunks, each with its embedding.
NoDocumentWithoutChunksUnlessEmptyList ==
    (\A c \in Callers : CallOver(c)) =>
        /\ \A d \in store.documents :
              Cardinality({ch \in store.chunks : ch.document_id = d.id}) = d.total_chunks
        /\ \A ch \in store.chunks :
              /\ ch.embedding.dim = EMBEDDING_DIMENSION
              /\ \E d \in store.documents : d.id = ch.document_id

NewDocuments == store.documents \ req.before.documents

\* C3 as stated: an /ingest request for a .pdf upload with a non-empty page,
\* in which extraction, embedding and the store work without fault, ends
\* with exactly one new Document and all its chunks committed, and the
\* response reports success, that document's id, and the chunker's count.
C3_IngestSucceeds ==
    (/\ req.pc = "responded"
     /\ EndsWith(req.filename, DotPdf)
     /\ \E k \in DOMAIN req.upload : ~Blank(req.upload[k])
     /\ ~req.faulted) =>
        /\ req.response.status_code = 200
        /\ req.response.status = "success"
        /\ req.response.num_chunks = Len(req.chunks)
        /\ Cardinality(NewDocuments) = 1
        /\ \A d \in NewDocuments :
              /\ d.id = req.response.document_id
              /\ \A j \in DOMAIN req.chunks :
                    \E ch \in store.chunks :
                        /\ ch.document_id = d.id
                        /\ ch.chunk_index = req.chunks[j].chunk_index
                        /\ ch.content = req.chunks[j].text

\* What the code does instead: such a request is answered 500 and the store
\* is left as it was.
IngestAlwaysFailsAtStore ==
    (/\ req.pc = "responded"
     /\ EndsWith(req.filename, DotPdf)
     /\ \E k \in DOMAIN req.upload : ~Blank(req.upload[k])
     /\ ~req.faulted) =>
        /\ req.response = HttpError(500)
        /\ store.documents = req.before.documents
        /\ store.chunks = req.before.chunks

(***************************************************************************)
(* Claims about the /query handler.                                        *)
(***************************************************************************)
QueryResponded == qry.pc = "responded"

QuerySucceeded == QueryResponded /\ qry.response.status_code = 200

NonDecreasing(rs) ==
    \A i, j \in DOMAIN rs : i < j => rs[i].distance <= rs[j].distance

\* C11 as stated: a /query with document_id set and top_k >= 1, with no
\* fault of the embedder or the database, returns a list that holds only
\* chunks of that document, in ascending order of distance, at most top_k.
C11_FilteredQueryReturnsOnlyMatches ==
    (/\ QueryResponded
     /\ ~qry.fault
     /\ qry.top_k >= 1
     /\ qry.document_id # <<>>) =>
        /\ qry.response.status_code = 200
        /\ \A i \in DOMAIN qry.response.results :
              qry.response.results[i].document_id = qry.document_id[1]
        /\ NonDecreasing(qry.response.results)
        /\ Len(qry.response.results) <= qry.top_k

\* What the code does instead: a /query that is answered with success has
\* returned no chunk at all.
QueryReturnsNoChunk ==
    QuerySucceeded => qry.response.results = <<>> /\ qry.response.num_results = 0

\* The filter step itself: for a document_id other than 0 the candidates
\* kept are the matching ones, ordered, at most top_k.
FilterKeepsOnlyMatches ==
    (qry.pc = "convert" /\ TruthyInt(qry.document_id) /\ qry.top_k >= 1) =>
        /\ \A i \in DOMAIN qry.results :
              qry.results[i].chunk.document_id = qry.document_id[1]
        /\ NonDecreasing(qry.results)
        /\ Len(qry.results) <= qry.top_k

\* document_id = 0 is a supplied value that the filter treats as absent.
FilterKeepsOnlyMatchesForZeroToo ==
    (qry.pc = "convert" /\ qry.document_id # <<>> /\ qry.top_k >= 1) =>
        \A i \in DOMAIN qry.results :
            qry.results[i].chunk.document_id = qry.document_id[1]

\* C12 as stated: with at least one ingested chunk in the store and
\* top_k >= 1, a /query without document filter, with no fault of the
\* embedder or the database, completes without error and returns at most
\* top_k results with non-decreasing distances.
C12_UnfilteredQueryCompletes ==
    (/\ QueryResponded
     /\ ~qry.fault
     /\ qry.top_k >= 1
     /\ qry.document_id = <<>>
     /\ store.chunks # {}) =>
        /\ qry.response.status_code = 200
        /\ Len(qry.response.results) <= qry.top_k
        /\ NonDecreasing(qry.response.results)

\* What the code does instead: every such query is answered 500, raised by
\* the read of chunk.text.
UnfilteredQueryFailsOnText ==
    (/\ QueryResponded
     /\ ~qry.fault
     /\ qry.top_k >= 1
     /\ qry.document_id = <<>>
     /\ store.chunks # {}) =>
        qry.response = QueryFailed("AttributeError")

\* C13 as stated: a /query against an empty store, for any query text,
\* top_k and document_id, with no fault of the embedder or the database,
\* returns zero results and no error.
C13_EmptyStoreQueryReturnsNothing ==
    (/\ QueryResponded
     /\ ~qry.fault
     /\ store.documents = {}
     /\ store.chunks = {}) =>
        /\ qry.response.status_code = 200
        /\ qry.response.num_results = 0
        /\ qry.response.results = <<>>

\* What the code keeps of C13: the same for every top_k >= 0.
EmptyStoreQueryNonNegativeTopK ==
    (/\ QueryResponded
     /\ ~qry.fault
     /\ qry.top_k >= 0
     /\ store.documents = {}
     /\ store.chunks = {}) =>
        /\ qry.response.status_code = 200
        /\ qry.response.num_results = 0
        /\ qry.response.results = <<>>

(***************************************************************************)
(* Claims about error handling in the store and in /ingest.                *)
(***************************************************************************)
Mismatched(c) ==
    call[c].pc # "idle" /\ Len(call[c].chunks) # Len(call[c].embeddings)

StagedChunks(c) ==
    {j \in DOMAIN session[c].new : session[c].new[j].kind = "Chunk"}

\* C14: a call whose chunk list and embedding array differ in length never
\* gets past the length test of create_chunks: it fails there with the
\* count-mismatch ValueError, no Chunk is staged in the session or written,
\* and once the call is over the Document flushed before is gone too.
C14_CountMismatchWritesNothing ==
    \A c \in Callers :
        Mismatched(c) =>
            /\ call[c].pc \in {"create_document", "create_chunks", "except",
                               "finally", "raised"}
            /\ StagedChunks(c) = {}
            /\ session[c].chunks = {}
            /\ (call[c].pc \in {"except", "finally", "raised"} /\ AttemptHasId(c)) =>
                  call[c].error = "ValueError"
            /\ call[c].pc \in {"finally", "raised"} => session[c].documents = {}
            /\ (call[c].pc = "raised" /\ AttemptHasId(c)) =>
                  /\ \A d \in store.documents : d.id # call[c].doc_id[1]
                  /\ \A ch \in store.chunks : ch.document_id # call[c].doc_id[1]

\* C14 witness: more drafts than vectors, the Document had been flushed,
\* the call raised the ValueError and the Document is not in the store.
C14_Witness ==
    \E c \in Callers :
        /\ call[c].pc = "raised"
        /\ Len(call[c].chunks) > Len(call[c].embeddings)
        /\ Len(call[c].embeddings) >= 1
        /\ AttemptHasId(c)
        /\ call[c].error = "ValueError"
        /\ store.doc_seq > call[c].doc_id[1]
        /\ store.documents = {}

\* C15: when every page of the upload is empty or whitespace (or there is
\* no page), so that chunking yields no chunk, /ingest answers with the
\* empty-document HTTP 400, the only step attempted is extraction and
\* chunking (no embedder call, no store call, no session), and the store is
\* as it was.
C15_EmptyDocumentIsRejected ==
    (/\ req.pc \in {"finally", "responded"}
     /\ EndsWith(req.filename, DotPdf)
     /\ ~req.faulted
     /\ \A k \in DOMAIN req.upload : Blank(req.upload[k])) =>
        /\ req.chunks = <<>>
        /\ req.response = EmptyDocument
        /\ req.steps = <<"extract">>
        /\ req.embeddings = <<>>
        /\ \A c \in Callers : session[c] = NoSession
        /\ store.documents = req.before.documents
        /\ store.chunks = req.before.chunks

\* C15 witness: a two-page upload with a whitespace page was answered with
\* the empty-document error.
C15_Witness ==
    /\ req.pc = "responded"
    /\ Len(req.upload) >= 2
    /\ \E k \in DOMAIN req.upload : req.upload[k] # <<>>
    /\ \A k \in DOMAIN req.upload : Blank(req.upload[k])
    /\ req.response = EmptyDocument

WrongDimension(v) == v.dim # EMBEDDING_DIMENSION

\* C16 as stated: when the embedder has produced a vector whose length is
\* not the configured dimension, the embedding step of /ingest is where the
\* request fails: the store is not called and the response is an error.
C16_DimensionMismatchFailsAtEmbedding ==
    (/\ req.pc \in {"store", "finally", "responded"}
     /\ \E j \in DOMAIN req.embeddings : WrongDimension(req.embeddings[j])) =>
        /\ req.pc # "store"
        /\ req.steps = <<"extract", "embed">>
        /\ req.response # None

\* What the code keeps of C16: nothing of such a request is persisted.
WrongDimensionPersistsNothing ==
    (/\ req.pc = "responded"
     /\ \E j \in DOMAIN req.embeddings : WrongDimension(req.embeddings[j])) =>
        /\ store.documents = req.before.documents
        /\ store.chunks = req.before.chunks

(***************************************************************************)
(* Claims about sessions.                                                  *)
(***************************************************************************)
CallStarted(c) == call[c].pc # "idle"

\* C17 as stated: every storage call and every /query request has acquired
\* exactly one session once it is over, and that session is closed.
C17_ExactlyOneSessionAlwaysClosed ==
    /\ \A c \in Callers :
          (CallStarted(c) /\ CallOver(c)) =>
              call[c].opened = 1 /\ session[c].state = "closed"
    /\ QueryResponded => qry.opened = 1 /\ qry.db = "closed"

\* C17, amended: a storage call acquires exactly one session, which is open
\* while the call runs and closed when it is over, however it ends.  A
\* /query request acquires at most one session: none when the query
\* embedding failed, one otherwise, and that one is closed when the request
\* is over, however it ends.
C17_NoSessionLeftOpen ==
    /\ \A c \in Callers :
          CallStarted(c) =>
              /\ call[c].opened = 1
              /\ session[c].state = (IF CallOver(c) THEN "closed" ELSE "open")
    /\ \A c \in Callers : ~CallStarted(c) => session[c] = NoSession
    /\ qry # NoQuery =>
          /\ qry.opened <= 1
          /\ qry.db = "open" <=> qry.pc \in {"search", "filter", "convert", "finally"}
          /\ QueryResponded =>
                /\ qry.db # "open"
                /\ qry.opened = 1 <=> qry.query_embedding # <<>>
                /\ qry.opened = 1 <=> qry.db = "closed"

\* C17 witness: a /query request ended on the unexpected exception raised
\* while the results were assembled, with its one session closed.
C17_Witness ==
    /\ QueryResponded
    /\ qry.raised = <<"AttributeError">>
    /\ qry.opened = 1
    /\ qry.db = "closed"

(***************************************************************************)
(* Claims about the embedding model instance.                              *)
(***************************************************************************)
GotModel(t) == emb.thread[t].model # <<>>

\* C18 as stated: under any interleaving of concurrent callers of
\* get_embedding_model the constructor runs at most once and all callers
\* get the same instance.
C18_ModelInitializedOnce ==
    emb # NoEmbedder =>
        /\ emb.constructed <= 1
        /\ \A t, u \in Threads :
              (GotModel(t) /\ GotModel(u)) => emb.thread[t].model = emb.thread[u].model

\* What the code keeps of C18: once the global is set no later caller runs
\* the constructor, so there are at most as many instances as threads.
ModelConstructedOncePerThreadAtMost ==
    emb # NoEmbedder => emb.constructed <= Cardinality(Threads)

(***************************************************************************)
(* Claims about failures of /query.                                        *)
(***************************************************************************)
\* C19: a /query request in which a step raised (the query embedding, the
\* search, or the assembly of the result records) ends with the 500 error
\* that carries the message and has no result list; a request answered with
\* success returns the whole list left after filter and truncation.
C19_FailedQueryReturnsErrorOnly ==
    QueryResponded =>
        IF qry.raised # <<>>
        THEN /\ qry.response = QueryFailed(qry.raised[1])
             /\ ~HasAttr(qry.response, "results")
             /\ HasAttr(qry.response, "detail")
        ELSE /\ qry.response.status_code = 200
             /\ qry.response.num_results = Len(qry.results)
             /\ Len(qry.response.results) = Len(qry.results)
             /\ \A i \in DOMAIN qry.results :
                   qry.response.results[i].chunk_id = qry.results[i].chunk.id

\* C19 witness: the search had returned two candidates, the assembly of the
\* records raised, and the response is the error.
C19_Witness ==
    /\ QueryResponded
    /\ Len(qry.results) >= 2
    /\ qry.raised = <<"AttributeError">>
    /\ qry.response = QueryFailed("AttributeError")

(***************************************************************************)
(* Claims about the two-page scenario.                                     *)
(***************************************************************************)
OnPage(ch, p) == ch.page_start = p /\ ch.page_end = p

\* C20 as stated: a page of 3000 characters followed by a page of 300
\* characters, chunked by the sentence-aware chunker with max_chars = 1500
\* and overlap = 200, gives exactly 3 chunks: indices 0 and 1 on page 0 and
\* index 2 on page 1.
C20_ScenarioGivesThreeChunks ==
    (cpc = "done" /\ use_smart_chunking) =>
        /\ Len(chunks) = 3
        /\ \A i \in 1..3 : chunks[i].chunk_index = i - 1
        /\ OnPage(chunks[1], 0)
        /\ OnPage(chunks[2], 0)
        /\ OnPage(chunks[3], 1)

\* What the code does in the scenario: page 2 gives the last chunk, on page
\* 1, every chunk before it is on page 0 and the indices are the positions;
\* the fixed-window chunker cuts page 1 into 3 windows (4 chunks in all),
\* the sentence-aware one into 2, 3 or 4 chunks depending on the sentences.
ScenarioPageTwoIsLastChunk ==
    cpc = "done" =>
        /\ Len(chunks) \in (IF use_smart_chunking THEN {3, 4, 5} ELSE {4})
        /\ \A i \in DOMAIN chunks :
              /\ chunks[i].chunk_index = i - 1
              /\ OnPage(chunks[i], IF i = Len(chunks) THEN 1 ELSE 0)

\* The last n characters of s.
TailOf(s, n) == SubSeq(s, Len(s) - n + 1, Len(s))

\* chunk_text_smart is about to close a chunk: the buffer is not empty and
\* the next segment does not fit behind it.
ClosesChunk ==
    /\ run.pc = "for_sentence"
    /\ run.i <= Len(run.sentences)
    /\ run.current_chunk # <<>>
    /\ Len(run.current_chunk) + Len(Sentence(run.sentences[run.i])) + 1 > max_chars

\* What C21 says the new buffer is: the last min(overlap, len(buffer))
\* characters of the closed buffer, a space, and the new segment.
SeededBuffer ==
    TailOf(run.current_chunk, SetMin({overlap, Len(run.current_chunk)}))
        \o <<" ">> \o Sentence(run.sentences[run.i])

\* C21 as stated: whenever chunk_text_smart closes a chunk, the new buffer is
\* the last min(overlap, len(buffer)) characters of the closed, untrimmed
\* buffer followed by the new segment, for every overlap in 0..max_chars-1;
\* with overlap = 0 nothing of the closed buffer is carried over.
C21_NewBufferIsOverlapTailThenSegment ==
    [][(ClosesChunk /\ overlap < max_chars) =>
           run'.current_chunk = SeededBuffer]_vars

\* What remains of C21 in the code: the seeding is as stated for every
\* positive overlap below max_chars.
NewBufferIsOverlapTailForPositiveOverlap ==
    [][(ClosesChunk /\ overlap >= 1 /\ overlap < max_chars) =>
           run'.current_chunk = SeededBuffer]_vars

\* With overlap = 0 the whole closed buffer is carried into the new one.
ZeroOverlapCarriesWholeBuffer ==
    [][(ClosesChunk /\ overlap = 0) =>
           run'.current_chunk =
               run.current_chunk \o <<" ">> \o Sentence(run.sentences[run.i])]_vars

\* The number of candidates C22 says /query asks the search for.
CandidatesSpecified ==
    IF qry.document_id # <<>> THEN 2 * qry.top_k ELSE qry.top_k

\* C22 as stated: /query asks the nearest-neighbour search for 2 x top_k
\* candidates when document_id is given and for exactly top_k candidates when
\* no document filter is given.
C22_CandidatesRequested ==
    \A i \in DOMAIN qry.searches : qry.searches[i] = CandidatesSpecified

\* What the code does instead: it asks for 2 x top_k candidates whether or
\* not a document filter is given.
AlwaysTwiceTopKRequested ==
    \A i \in DOMAIN qry.searches : qry.searches[i] = 2 * qry.top_k

\* The list an unfiltered query goes on with is nevertheless one that a
\* search for exactly top_k candidates could have returned.
UnfilteredResultsAsIfTopKRequested ==
    (qry.pc = "convert" /\ qry.document_id = <<>> /\ qry.top_k >= 0) =>
        qry.results \in search_similar_chunks(store, qry.dist, qry.top_k)

\* The search of this request came back with its rows.
SearchReturned ==
    /\ Len(qry.searches) = 1
    /\ qry.raised \in {<<>>, <<"AttributeError">>}

\* C23 as stated: each /query request, with no fault of the embedder or the
\* database, performs exactly one nearest-neighbour search, and when
\* document_id is given and fewer than top_k of the fetched candidates match
\* it, the answer is that shorter list, without another fetch.
C23_OneSearchThenShorterResult ==
    (QueryResponded /\ ~qry.fault) =>
        /\ Len(qry.searches) = 1
        /\ (SearchReturned /\ qry.document_id # <<>> /\ Len(qry.results) < qry.top_k) =>
              /\ qry.response.status_code = 200
              /\ Len(qry.response.results) = Len(qry.results)

\* The part of C23 about fetching that the code keeps: a request never
\* searches twice, and it has searched once when it answers unless the query
\* embedding failed, in which case it has not searched at all.
NoSecondSearch ==
    /\ Len(qry.searches) <= 1
    /\ QueryResponded =>
          Len(qry.searches) = (IF qry.raised = <<"EmbeddingError">> THEN 0 ELSE 1)

\* The shorter result is returned only when it is empty, and then even if
\* chunks of the document lie beyond the fetched candidates; a shorter
\* result that holds a chunk is answered 500 by the read of chunk.text.
ShorterResultReturnedOnlyIfEmpty ==
    (/\ QueryResponded
     /\ SearchReturned
     /\ TruthyInt(qry.document_id)
     /\ Len(qry.results) < qry.top_k) =>
        IF qry.results = <<>>
        THEN qry.response.status_code = 200 /\ qry.response.results = <<>>
        ELSE qry.response = QueryFailed("AttributeError")

\* A filtered /query found fewer matches than top_k among its candidates,
\* though at least one.
ShorterResultWithAMatch ==
    /\ QueryResponded
    /\ ~qry.fault
    /\ SearchReturned
    /\ TruthyInt(qry.document_id)
    /\ qry.results # <<>>
    /\ Len(qry.results) < qry.top_k

\* A filtered /query has answered with an empty list although a chunk of the
\* document is stored beyond the candidates it fetched.
ShorterResultWithMatchBeyondFetch ==
    /\ QuerySucceeded
    /\ TruthyInt(qry.document_id)
    /\ qry.top_k >= 1
    /\ qry.results = <<>>
    /\ Cardinality(store.chunks) > 2 * qry.top_k
    /\ \E ch \in store.chunks : ch.document_id = qry.document_id[1]

\* The positions of the page that the raw window page_text[start:start +
\* max_chars] holds.
WindowPositions(start) ==
    {p \in 0..(Len(PageText) - 1) : start <= p /\ p < start + max_chars}

\* The window loop has taken one pass and stays on the page.
WindowStep == run.pc = "while" /\ run'.pc = "while"

\* C24 as stated: for a page longer than max_chars the first window starts at
\* 0; each next window starts at the previous window's end minus overlap when
\* overlap < max_chars, and consecutive raw windows then share exactly
\* overlap characters; it starts at the previous window's end when overlap >=
\* max_chars, and the windows share nothing; the start strictly increases.
C24_WindowsShareExactlyOverlap ==
    [][/\ (run.pc = "for" /\ run'.pc = "while") => run'.start = 0
       /\ WindowStep =>
            /\ run'.start > run.start
            /\ run'.start = IF overlap < max_chars
                            THEN run.start + max_chars - overlap
                            ELSE run.start + max_chars
            /\ run'.start < Len(PageText) =>
                  Cardinality(WindowPositions(run.start) \cap WindowPositions(run'.start))
                      = (IF overlap < max_chars THEN overlap ELSE 0)]_vars

\* C24 as the code has it: the starts are as stated; consecutive raw windows
\* share exactly overlap characters when the previous window lies within the
\* page, and when the end of the page cut it short the next window is wholly
\* inside it.
C24_WindowStartsAndSharedCharacters ==
    [][/\ (run.pc = "for" /\ run'.pc = "while") => run'.start = 0
       /\ WindowStep =>
            /\ run'.start > run.start
            /\ run'.start = IF overlap < max_chars
                            THEN run.start + max_chars - overlap
                            ELSE run.start + max_chars
            /\ run'.start < Len(PageText) =>
                  IF run.start + max_chars <= Len(PageText)
                  THEN Cardinality(WindowPositions(run.start) \cap WindowPositions(run'.start))
                           = (IF overlap < max_chars THEN overlap ELSE 0)
                  ELSE WindowPositions(run'.start) \subseteq WindowPositions(run.start)]_vars

\* C24 witness: with 1 <= overlap < max_chars the loop stands at a window
\* that follows one cut short by the end of the page.
C24_Witness ==
    /\ run.pc = "while"
    /\ ~use_smart_chunking
    /\ overlap >= 1
    /\ overlap < max_chars
    /\ run.start >= 2
    /\ run.start < Len(PageText)
    /\ run.start + overlap > Len(PageText)

(***************************************************************************)
(* Claims about the rows a storage transaction commits.                    *)
(***************************************************************************)
\* The committed Chunk rows of the Document that call c created.
RowsOf(c) == {ch \in store.chunks : ch.document_id = call[c].doc_id[1]}

\* C25: vectors are attached by position.  After a successful ingestion the
\* Chunk row made from chunks[i] stores embeddings[i]; encode_chunks returns
\* the vector of the i-th chunk's text at position i; so when the array is
\* the one encode_chunks returns for the chunk list, the row with
\* chunk_index i stores the vector computed for its own text.
C25_VectorsAttachedPositionally ==
    /\ \A model \in Models, n \in 0..MaxChunks :
          LET e == encode_chunks(model, Drafts(n))
          IN  /\ Len(e) = n
              /\ \A j \in 1..n : e[j].of = Drafts(n)[j].text
    /\ \A c \in Callers :
          call[c].pc = "returned" =>
              /\ Cardinality(RowsOf(c)) = Len(call[c].chunks)
              /\ \A j \in DOMAIN call[c].chunks :
                    \E ch \in RowsOf(c) :
                        /\ ch.chunk_index = call[c].chunks[j].chunk_index
                        /\ ch.content = call[c].chunks[j].text
                        /\ ch.embedding = call[c].embeddings[j]
              /\ (\E model \in Models :
                      call[c].embeddings = encode_chunks(model, call[c].chunks)) =>
                    \A ch \in RowsOf(c) : ch.embedding.of = ch.content

\* C25 witness: a call handed two chunks and the array encode_chunks returns
\* for them has returned, and both rows are committed.
C25_Witness ==
    \E c \in Callers :
        /\ call[c].pc = "returned"
        /\ Len(call[c].chunks) = MaxChunks
        /\ call[c].embeddings = encode_chunks([dimension |-> EMBEDDING_DIMENSION],
                                              call[c].chunks)
        /\ Cardinality(RowsOf(c)) = MaxChunks

(***************************************************************************)
(* Claims about the course of one /ingest request.                         *)
(***************************************************************************)
\* The steps of /ingest in their order; extraction and chunking are one
\* call, extract_and_chunk_pdf, which extracts and then chunks.
IngestSteps == <<"extract", "embed", "store">>

IsPrefix(s, t) == Len(s) <= Len(t) /\ s = SubSeq(t, 1, Len(s))

IngestEnded == req.pc \in {"finally", "responded"}

\* C26: within one /ingest request extraction and chunking, embedding and
\* the storage call are each attempted at most once and in that order; the
\* store is called only after the embedding of the chunks has completed; a
\* step that fails ends the request with an error, and once the request has
\* its answer no step is attempted again.
C26_StepsOnceInOrderNoRetry ==
    /\ [](/\ IsPrefix(req.steps, IngestSteps)
          /\ Len(req.steps) = 3 =>
                /\ req.chunks # <<>>
                /\ req.embeddings = encode_chunks(req.model, req.chunks)
                /\ IngestEnded
          /\ req.faulted =>
                /\ IngestEnded
                /\ req.response = HttpError(500)
                /\ Len(req.steps) < 3)
    /\ [][IngestEnded => req'.steps = req.steps /\ req'.response = req.response]_vars

\* C26 witness: the request was answered with an error after extraction and
\* chunking, embedding and the storage call had each been attempted once.
C26_Witness ==
    /\ req.pc = "responded"
    /\ req.steps = IngestSteps
    /\ req.response = HttpError(500)
    /\ Len(req.embeddings) = Len(req.chunks)
    /\ Len(req.chunks) >= 1

\* A failed embedding ended the request before the store was called.
EmbeddingFailureEndsRequest ==
    /\ req.pc = "responded"
    /\ req.faulted
    /\ req.steps = <<"extract", "embed">>

\* C30 as stated: the temporary file /ingest creates for the upload is
\* deleted on every exit path: no answered request leaves its temporary file
\* on disk.
C30_TempFileDeletedOnEveryExit ==
    req.pc = "responded" => ~req.temp_on_disk

\* What the code keeps of C30: the file is deleted on every exit path that
\* lies behind the `with` block, that is on success, on the empty-document
\* 400 and when extraction, embedding or the storage call fails.
TempFileDeletedOnceSaved ==
    (req.pc = "responded" /\ req.temp_path # <<>>) => ~req.temp_on_disk

\* The copy of the upload failed and the request was answered with its
\* temporary file still on disk.
TempFileLeftAfterCopyFailure ==
    /\ req.pc = "responded"
    /\ req.temp_file # None
    /\ req.temp_path = <<>>
    /\ req.temp_on_disk
    /\ req.response = HttpError(500)

\* The storage call failed and the temporary file is gone.
TempFileDeletedAfterStoreFailure ==
    /\ req.pc = "responded"
    /\ req.steps = IngestSteps
    /\ req.response = HttpError(500)
    /\ ~req.temp_on_disk

\* Call c has taken the step that commits its transaction.
CommitStep(c) == call[c].pc = "commit" /\ call'[c].pc = "finally"

\* Call c has taken the step that rolls its transaction back, or the one
\* that closes its session.
RollbackStep(c) == call[c].pc \in {"except", "finally"} /\ call'[c].pc # call[c].pc

\* C27: under any interleaving of concurrent ingestion transactions, each
\* with its own session: no two committed Documents share an id; within one
\* document the committed chunk_index values are pairwise distinct; every
\* Chunk is committed together with the Document whose id it carries, the
\* one its own transaction created; and a rollback removes no committed row
\* and no row of another transaction.
C27_ConcurrentIngestionsKeepApart ==
    /\ [](/\ \A d1, d2 \in store.documents : d1.id = d2.id => d1 = d2
          /\ \A c1, c2 \in store.chunks :
                (c1.document_id = c2.document_id /\ c1.chunk_index = c2.chunk_index)
                    => c1 = c2
          /\ \A ch \in store.chunks : \E d \in store.documents : d.id = ch.document_id)
    /\ [][\A c \in Callers :
            /\ CommitStep(c) =>
                  /\ store.documents \subseteq store'.documents
                  /\ store.chunks \subseteq store'.chunks
                  /\ Cardinality(store'.documents \ store.documents) = 1
                  /\ \A d \in store'.documents \ store.documents :
                        d.id = call[c].doc_id[1]
                  /\ Cardinality(store'.chunks \ store.chunks) = Len(call[c].chunks)
                  /\ \A ch \in store'.chunks \ store.chunks :
                        ch.document_id = call[c].doc_id[1]
                  /\ \A o \in Callers \ {c} : session'[o] = session[o]
            /\ RollbackStep(c) =>
                  /\ store'.documents = store.documents
                  /\ store'.chunks = store.chunks
                  /\ \A o \in Callers \ {c} : session'[o] = session[o]]_vars

\* C27 witness: two transactions overlapped; the one that created its
\* Document first has committed it with its chunks, the other, which had
\* begun before that commit, has created its own Document and was rolled
\* back; the committed rows are in the store.
C27_Witness ==
    \E c \in Callers, o \in Callers :
        /\ c # o
        /\ call[c].pc = "returned"
        /\ call[o].pc = "raised"
        /\ AttemptHasId(o)
        /\ call[c].doc_id[1] < call[o].doc_id[1]
        /\ \A d \in call[o].before.documents : d.id # call[c].doc_id[1]
        /\ Len(call[c].chunks) = MaxChunks
        /\ Cardinality(RowsOf(c)) = MaxChunks

\* C28: in every committed state each Document's total_chunks equals the
\* number of committed Chunk rows that carry its id.
C28_TotalChunksCountsCommittedChunks ==
    \A d \in store.documents :
        d.total_chunks = Cardinality({ch \in store.chunks : ch.document_id = d.id})

\* C28 witness: a Document with two chunks is committed while another
\* transaction holds a Document and a Chunk of its own that are not.
C28_Witness ==
    /\ \E d \in store.documents :
          /\ d.total_chunks = MaxChunks
          /\ Cardinality({ch \in store.chunks : ch.document_id = d.id}) = MaxChunks
    /\ \E o \in Callers : session[o].documents # {} /\ session[o].chunks # {}

\* C29: for both chunkers and any input, every emitted chunk has page_start
\* equal to page_end, the zero-based position of a page of the document, and
\* page_start does not decrease as chunk_index grows.
C29_ChunkStaysOnItsPage ==
    cpc = "done" =>
        /\ \A i \in DOMAIN chunks :
              /\ chunks[i].page_start = chunks[i].page_end
              /\ chunks[i].page_start \in 0..(Len(pages) - 1)
        /\ \A i, j \in DOMAIN chunks :
              chunks[i].chunk_index < chunks[j].chunk_index =>
                  chunks[i].page_start <= chunks[j].page_start

\* C29 witness: the first page gave one chunk and a later page was cut into
\* two chunks or more, the last of the result.
C29_Witness ==
    /\ cpc = "done"
    /\ Len(chunks) >= 3
    /\ chunks[1].page_start = 0
    /\ chunks[2].page_start >= 1
    /\ chunks[Len(chunks)].page_start = chunks[Len(chunks) - 1].page_start

====
